---- MODULE Spec2Model ----
(***************************************************************************)
(* Danish energy analytics: the extraction script, the warehouse loader   *)
(* and the data preparation of the ML pipeline, as state machines.         *)
(*                                                                         *)
(* Frames (pandas DataFrames, CSV files, tables) are sequences of records. *)
(* Numeric cells are floats: a record [k, n, d] that is a rational n/d     *)
(* (k = "num"), NaN (k = "nan") or an infinity (k = "inf", sign in n).     *)
(* Timestamps of the raw files are text; they are modelled by their        *)
(* fields [day, hour, minute] and parsed to minutes since the first day.   *)
(***************************************************************************)
EXTENDS Integers, Sequences, FiniteSets, TLC

VARIABLES
    \* DanishEnergyMLPipeline (ml_models/danish_energy_ml_pipeline.py)
    co2_data, renewable_data, price_data, co2_agg, merged_data, df, mlpc,
    \* DanishEnergyDataExtractor (data_ingestion/extract_energy_data.py): the files
    \* of the output directory, and what the latest call of each extract did
    raw_files, available_datasets, extraction_summary, last_call, run_source,
    \* the warehouse: the raw tables and the three fact tables (committed contents)
    raw_tables, fact_co2_emissions, fact_energy_production, fact_electricity_prices,
    \* main() of data_warehouse/load_data_warehouse.py: its position, the loader's
    \* connection, its locals, the exception it raises and the summary file
    pc, conn, next_file, total_raw_rows, etl_result, counts, quality_results,
    error, loading_summary,
    \* bookkeeping: runs of main so far, the step an injected failure hit in this
    \* run, and the fact tables as the previous run left them
    runs, fault, prev_run,
    \* DashboardDataService (dashboards/dashboard_api.py): the connections that
    \* were opened and not closed, and the latest call of a query method
    open_connections, dash_call,
    \* the run of the pipeline of AzureDataFactoryConfig.create_pipeline_config:
    \* the status of its activities, the runs triggered, the results of earlier runs
    activity_status, pipeline_runs, pipeline_history

mlVars == <<co2_data, renewable_data, price_data, co2_agg, merged_data, df, mlpc>>

exVars == <<raw_files, available_datasets, extraction_summary, last_call, run_source>>

dbVars == <<raw_tables, fact_co2_emissions, fact_energy_production, fact_electricity_prices>>

mainVars == <<pc, conn, next_file, total_raw_rows, etl_result, counts, quality_results,
              error, loading_summary, runs, fault, prev_run>>

dashVars == <<open_connections, dash_call>>

adfVars == <<activity_status, pipeline_runs, pipeline_history>>

vars == <<mlVars, exVars, dbVars, mainVars, dashVars, adfVars>>

----------------------------------------------------------------------------
(* Bounds of the model *)

\* longest raw frame drawn as an input of the ML data preparation
MaxRows == 3

\* most records in one response of the upstream source
MaxResp == 2

\* most rows of a fact table that main() finds in the warehouse when it starts
MaxFactRows == 2

\* runs of main() in a row
MaxRuns == 2

----------------------------------------------------------------------------
(* Floats *)

Num(x) == [k |-> "num", n |-> x, d |-> 1]
NaN == [k |-> "nan", n |-> 0, d |-> 1]
PosInf == [k |-> "inf", n |-> 1, d |-> 1]
NegInf == [k |-> "inf", n |-> -1, d |-> 1]

IsNum(x) == x.k = "num"
IsNaN(x) == x.k = "nan"
IsInf(x) == x.k = "inf"

Abs(i) == IF i < 0 THEN -i ELSE i

RECURSIVE GCD(_, _)
GCD(a, b) == IF b = 0 THEN a ELSE GCD(b, a % b)

\* the rational n/d (d # 0) in lowest terms with a positive denominator
Rat(n, d) ==
    LET g == GCD(Abs(n), Abs(d))
        s == IF d < 0 THEN -1 ELSE 1
    IN  [k |-> "num", n |-> s * (n \div g), d |-> s * (d \div g)]

\* a + b on finite floats
FAdd(a, b) == Rat(a.n * b.d + b.n * a.d, a.d * b.d)

\* a < b on finite floats
FLess(a, b) == a.n * b.d < b.n * a.d

\* a / b as numpy divides float columns: no exception, x/0 is +-inf, 0/0 is NaN
FDiv(a, b) ==
    IF IsNaN(a) \/ IsNaN(b) THEN NaN
    ELSE IF IsInf(a) THEN (IF IsInf(b) THEN NaN
                           ELSE IF b.n < 0 THEN [a EXCEPT !.n = -a.n] ELSE a)
    ELSE IF IsInf(b) THEN Num(0)
    ELSE IF b.n = 0 THEN (IF a.n = 0 THEN NaN
                          ELSE IF a.n > 0 THEN PosInf ELSE NegInf)
    ELSE Rat(a.n * b.d, a.d * b.n)

\* a * c for an integer c > 0
FScale(a, c) == IF IsNum(a) THEN Rat(a.n * c, a.d) ELSE a

\* Series.fillna(v)
fillna(x, v) == IF IsNaN(x) THEN v ELSE x

----------------------------------------------------------------------------
(* Timestamps *)

TS(dd, hh, mm) == [day |-> dd, hour |-> hh, minute |-> mm]

\* pd.to_datetime of a timestamp text: minutes since the first day
to_datetime(ts) == ts.day * 1440 + ts.hour * 60 + ts.minute

\* Series.dt.floor('H')
floorH(t) == t - (t % 60)

\* Series.dt.hour
dt_hour(t) == (t \div 60) % 24

\* Danish local time of a UTC timestamp (CET, the source's Minutes5DK / HourDK)
LocalTS(ts) ==
    IF ts.hour = 23 THEN TS(ts.day + 1, 0, ts.minute) ELSE TS(ts.day, ts.hour + 1, ts.minute)

----------------------------------------------------------------------------
(* Price areas *)

\* lexicographic order of the price-area codes (the order pandas sorts them in)
AreaRank == [DE |-> 1, DK1 |-> 2, DK2 |-> 3]

DanishAreas == {"DK1", "DK2"}

----------------------------------------------------------------------------
(* Generic frame helpers *)

BoundedSeq(S, n) == UNION {[1..k -> S] : k \in 0..n}

Range(s) == {s[i] : i \in DOMAIN s}

----------------------------------------------------------------------------
(* Rows of the three raw files, as the extraction writes them          *)

\* the production columns summed into the renewable total
renewable_cols ==
    <<"OffshoreWindLt100MW_MWh", "OffshoreWindGe100MW_MWh",
      "OnshoreWindLt50kW_MWh", "OnshoreWindGe50kW_MWh",
      "SolarPowerLt10kW_MWh", "SolarPowerGe10Lt40kW_MWh",
      "SolarPowerGe40kW_MWh", "HydroPowerMWh">>

Co2Row(ts, area, v) ==
    [Minutes5UTC |-> ts, Minutes5DK |-> LocalTS(ts), PriceArea |-> area,
     CO2Emission |-> v]

\* a production row: offshore wind, solar and hydro vary, the other bands are 0
RenRow(ts, area, wind, solar, hydro, cons) ==
    [HourUTC |-> ts, HourDK |-> LocalTS(ts), PriceArea |-> area,
     OffshoreWindLt100MW_MWh |-> Num(0), OffshoreWindGe100MW_MWh |-> wind,
     OnshoreWindLt50kW_MWh |-> Num(0), OnshoreWindGe50kW_MWh |-> Num(0),
     SolarPowerLt10kW_MWh |-> solar, SolarPowerGe10Lt40kW_MWh |-> Num(0),
     SolarPowerGe40kW_MWh |-> Num(0), HydroPowerMWh |-> hydro,
     GrossConsumptionMWh |-> cons]

PriceRow(ts, area, eur) ==
    [HourUTC |-> ts, HourDK |-> LocalTS(ts), PriceArea |-> area,
     SpotPriceDKK |-> FDiv(FScale(eur, 15), Num(2)), SpotPriceEUR |-> eur]

----------------------------------------------------------------------------
(* DanishEnergyMLPipeline: data preparation                             *)

\* (the timestamp column taken in Danish local time)
with_datetime_local(frame, col) ==
    [i \in DOMAIN frame |-> frame[i] @@ ("datetime" :> to_datetime(LocalTS(frame[i][col])))]

\* frame[col] parsed into a new column 'datetime'
with_datetime(frame, col) ==
    [i \in DOMAIN frame |-> frame[i] @@ ("datetime" :> to_datetime(frame[i][col]))]

\* (the grouping without the floor to the hour)
hour_key_exact(r) == <<r.datetime, r.PriceArea>>

\* the (hour, PriceArea) group a CO2 row falls in
hour_key(r) == <<floorH(r.datetime), r.PriceArea>>

hour_keys(frame) == {hour_key(frame[i]) : i \in DOMAIN frame}

KeyLess(a, b) == a[1] < b[1] \/ (a[1] = b[1] /\ AreaRank[a[2]] < AreaRank[b[2]])

\* groupby sorts the group keys
RECURSIVE SortKeys(_)
SortKeys(K) ==
    IF K = {} THEN <<>>
    ELSE LET m == CHOOSE x \in K : \A y \in K \ {x} : KeyLess(x, y)
         IN  <<m>> \o SortKeys(K \ {m})

\* one pass over the rows: sum and count of the non-NaN CO2Emission cells of a group
RECURSIVE group_acc(_, _, _)
group_acc(frame, key, acc) ==
    IF frame = <<>> THEN acc
    ELSE LET r == Head(frame)
             hit == hour_key(r) = key /\ ~IsNaN(r.CO2Emission)
         IN  group_acc(Tail(frame), key,
                 IF hit THEN [sum |-> FAdd(acc.sum, r.CO2Emission), count |-> acc.count + 1]
                 ELSE acc)

\* (the sum of a group divided by the 12 samples of a complete hour)
group_mean_fixed(frame, key) ==
    LET acc == group_acc(frame, key, [sum |-> Num(0), count |-> 0])
    IN  IF acc.count = 0 THEN NaN ELSE FDiv(acc.sum, Num(12))

\* agg 'mean' of a group: NaN cells are skipped, a group of NaN cells only gives NaN
group_mean(frame, key) ==
    LET acc == group_acc(frame, key, [sum |-> Num(0), count |-> 0])
    IN  IF acc.count = 0 THEN NaN ELSE FDiv(acc.sum, Num(acc.count))

\* the 5-minute CO2 frame aggregated to hourly: one row per (hour, PriceArea) group
groupby_hour_mean(co2) ==
    LET ks == SortKeys(hour_keys(co2))
    IN  [i \in DOMAIN ks |->
            [datetime |-> ks[i][1], PriceArea |-> ks[i][2],
             co2_emission |-> group_mean(co2, ks[i])]]

\* DataFrame.sum(axis=1) over the renewable columns: NaN cells count as 0
RECURSIVE row_sum(_, _)
row_sum(r, cols) ==
    IF cols = <<>> THEN Num(0)
    ELSE LET rest == row_sum(r, Tail(cols))
         IN  IF IsNaN(r[Head(cols)]) THEN rest ELSE FAdd(r[Head(cols)], rest)

\* the production columns that take part in the merge
renewable_clean(ren) ==
    [i \in DOMAIN ren |->
        [datetime |-> ren[i].datetime, PriceArea |-> ren[i].PriceArea,
         total_renewable_mwh |-> row_sum(ren[i], renewable_cols),
         GrossConsumptionMWh |-> ren[i].GrossConsumptionMWh]]

\* (the price rows of all areas)
price_all(price) ==
    [i \in DOMAIN price |->
        [datetime |-> price[i].datetime, PriceArea |-> price[i].PriceArea,
         spot_price_eur |-> price[i].SpotPriceEUR]]

\* the price rows of the Danish areas, with the EUR price renamed
price_clean(price) ==
    LET danish == SelectSeq(price, LAMBDA r : r.PriceArea \in DanishAreas)
    IN  [i \in DOMAIN danish |->
            [datetime |-> danish[i].datetime, PriceArea |-> danish[i].PriceArea,
             spot_price_eur |-> danish[i].SpotPriceEUR]]

\* the rows of right with the key of the left row l
merge_matches(l, right) ==
    SelectSeq(right, LAMBDA r : r.datetime = l.datetime /\ r.PriceArea = l.PriceArea)

\* (how='left': a left row without a match is kept, with NaN in the right columns)
RECURSIVE merge_left(_, _)
merge_left(left, right) ==
    IF left = <<>> THEN <<>>
    ELSE LET m == merge_matches(Head(left), right)
             pad == [total_renewable_mwh |-> NaN, GrossConsumptionMWh |-> NaN,
                     spot_price_eur |-> NaN]
         IN  (IF m = <<>> THEN <<Head(left) @@ pad>>
              ELSE [j \in DOMAIN m |-> Head(left) @@ m[j]]) \o merge_left(Tail(left), right)

\* DataFrame.merge(on=['datetime', 'PriceArea'], how='inner'): every pair of a left
\* and a right row with the same key, in the order of the left frame
RECURSIVE merge_inner(_, _)
merge_inner(left, right) ==
    IF left = <<>> THEN <<>>
    ELSE LET m == merge_matches(Head(left), right)
         IN  [j \in DOMAIN m |-> Head(left) @@ m[j]] \o merge_inner(Tail(left), right)

\* GrossConsumptionMWh renamed to consumption_mwh
use_consumption(m) ==
    [i \in DOMAIN m |->
        [datetime |-> m[i].datetime, PriceArea |-> m[i].PriceArea,
         co2_emission |-> m[i].co2_emission,
         total_renewable_mwh |-> m[i].total_renewable_mwh,
         spot_price_eur |-> m[i].spot_price_eur,
         consumption_mwh |-> m[i].GrossConsumptionMWh]]

\* lines 179-197: the hourly CO2 frame merged with production, then with prices
create_merged_dataset(agg, ren, price) ==
    use_consumption(
        merge_inner(merge_inner(agg, renewable_clean(ren)), price_clean(price)))

\* rows shifted by this many places give the lag feature of the previous day
LagDay == 24

\* DataFrame.sort_values(['PriceArea', 'datetime']): a stable sort on both columns
sort_rank(frame, i) ==
    Cardinality({j \in DOMAIN frame :
        \/ AreaRank[frame[j].PriceArea] < AreaRank[frame[i].PriceArea]
        \/ /\ frame[j].PriceArea = frame[i].PriceArea
           /\ \/ frame[j].datetime < frame[i].datetime
              \/ frame[j].datetime = frame[i].datetime /\ j < i}) + 1

sort_values(frame) ==
    [p \in DOMAIN frame |-> frame[CHOOSE i \in DOMAIN frame : sort_rank(frame, i) = p]]

\* groupby('PriceArea')[col].shift(n) at row p of a frame sorted by PriceArea
shift(frame, p, col, n) ==
    IF p - n >= 1 /\ frame[p - n].PriceArea = frame[p].PriceArea
    THEN frame[p - n][col] ELSE NaN

\* lines 206-230: the columns computed row by row
row_features(r) ==
    r @@ [hour |-> dt_hour(r.datetime),
          is_peak_hour |-> IF dt_hour(r.datetime) >= 8 /\ dt_hour(r.datetime) <= 20 THEN 1 ELSE 0,
          renewable_percentage |->
              fillna(FScale(FDiv(r.total_renewable_mwh, r.consumption_mwh), 100), Num(0)),
          renewable_intensity |->
              fillna(FDiv(r.total_renewable_mwh, FAdd(r.total_renewable_mwh, Num(1000))), Num(0))]

energy_features(m) == [i \in DOMAIN m |-> row_features(m[i])]

\* lines 232-236: the lag columns of the sorted frame
lag_features(m) ==
    LET s == sort_values(m)
    IN  [p \in DOMAIN s |->
            s[p] @@ [co2_emission_lag1 |-> shift(s, p, "co2_emission", 1),
                     co2_emission_lag24 |-> shift(s, p, "co2_emission", LagDay),
                     total_renewable_mwh_lag1 |-> shift(s, p, "total_renewable_mwh", 1),
                     total_renewable_mwh_lag24 |-> shift(s, p, "total_renewable_mwh", LagDay),
                     spot_price_eur_lag1 |-> shift(s, p, "spot_price_eur", 1),
                     spot_price_eur_lag24 |-> shift(s, p, "spot_price_eur", LagDay)]]

\* the float columns of the engineered frame (the rolling means, taken with
\* min_periods=1, are NaN only in rows where the averaged column is NaN itself)
float_cols ==
    <<"co2_emission", "total_renewable_mwh", "spot_price_eur", "consumption_mwh",
      "renewable_percentage", "renewable_intensity",
      "co2_emission_lag1", "co2_emission_lag24",
      "total_renewable_mwh_lag1", "total_renewable_mwh_lag24",
      "spot_price_eur_lag1", "spot_price_eur_lag24">>

\* DataFrame.dropna(): the rows without a NaN cell
dropna(frame) ==
    SelectSeq(frame, LAMBDA r : \A c \in Range(float_cols) : ~IsNaN(r[c]))

engineer_features(m) == dropna(lag_features(energy_features(m)))

----------------------------------------------------------------------------
(* Inputs of the data preparation: the contents of the three raw files   *)

Co2Universe ==
    {Co2Row(TS(0, 0, 0), "DK1", Num(100)), Co2Row(TS(0, 0, 5), "DK1", Num(200)),
     Co2Row(TS(0, 0, 10), "DK1", Num(400)), Co2Row(TS(0, 0, 55), "DK1", NaN),
     Co2Row(TS(0, 1, 0), "DK1", Num(300)),
     Co2Row(TS(0, 0, 5), "DK2", Num(100))}

\* a complete hour: the 12 five-minute samples of hour 0 in DK1
FullHour == [i \in 1..12 |-> Co2Row(TS(0, 0, 5 * (i - 1)), "DK1", Num(100 + 10 * i))]

RenUniverse ==
    {RenRow(TS(0, 0, 0), "DK1", Num(300), Num(200), NaN, Num(1000)),
     RenRow(TS(0, 0, 0), "DK1", Num(500), Num(0), Num(0), Num(0)),
     RenRow(TS(0, 0, 0), "DK2", Num(0), NaN, NaN, Num(0)),
     RenRow(TS(0, 1, 0), "DK1", Num(300), Num(0), Num(0), NaN),
     RenRow(TS(0, 1, 0), "DK1", Num(900), Num(600), Num(0), Num(1000))}

PriceUniverse ==
    {PriceRow(TS(0, 0, 0), "DK1", Num(50)), PriceRow(TS(0, 1, 0), "DK1", Num(-20)),
     PriceRow(TS(0, 0, 0), "DK2", Num(50)), PriceRow(TS(0, 0, 0), "DE", Num(40))}

Co2Inputs == BoundedSeq(Co2Universe, MaxRows) \cup {FullHour}
RenInputs == BoundedSeq(RenUniverse, MaxRows)
PriceInputs == BoundedSeq(PriceUniverse, MaxRows)

\* frames that cover the keys (hour 0, DK1), (hour 1, DK1) and (hour 0, DK2), or
\* one of them, or (hour 0, DK1) and the same hour of the German area; a CO2
\* frame of the last five minutes of a UTC day
Co2Few ==
    {<<Co2Row(TS(0, 0, 0), "DK1", Num(100)), Co2Row(TS(0, 1, 0), "DK1", Num(300)),
       Co2Row(TS(0, 0, 5), "DK2", Num(100))>>,
     <<Co2Row(TS(0, 0, 0), "DK1", Num(100))>>,
     <<Co2Row(TS(0, 0, 0), "DK1", Num(100)), Co2Row(TS(0, 0, 0), "DE", Num(500))>>,
     <<Co2Row(TS(0, 23, 55), "DK1", Num(100))>>}

RenFew ==
    {<<RenRow(TS(0, 0, 0), "DK1", Num(300), Num(200), NaN, Num(1000)),
       RenRow(TS(0, 1, 0), "DK1", Num(900), Num(600), Num(0), Num(1000)),
       RenRow(TS(0, 0, 0), "DK2", Num(0), NaN, NaN, Num(0))>>,
     <<RenRow(TS(0, 0, 0), "DK1", Num(300), Num(200), NaN, Num(1000))>>,
     <<RenRow(TS(0, 0, 0), "DK1", Num(300), Num(200), NaN, Num(1000)),
       RenRow(TS(0, 0, 0), "DE", Num(700), Num(0), Num(0), Num(2000))>>}

PriceFew ==
    {<<PriceRow(TS(0, 0, 0), "DK1", Num(50)), PriceRow(TS(0, 1, 0), "DK1", Num(-20)),
       PriceRow(TS(0, 0, 0), "DK2", Num(50))>>,
     <<PriceRow(TS(0, 0, 0), "DK1", Num(50))>>}

----------------------------------------------------------------------------
(* load_and_prepare_data, step by step                                    *)

\* the three raw files have been read
MLStart ==
    /\ mlpc = "loaded"
    /\ co2_agg = <<>>
    /\ merged_data = <<>>
    /\ df = <<>>
    /\ \/ co2_data \in Co2Inputs /\ renewable_data \in RenFew /\ price_data \in PriceFew
       \/ co2_data \in Co2Few /\ renewable_data \in RenInputs /\ price_data \in PriceFew
       \/ co2_data \in Co2Few /\ renewable_data \in RenFew /\ price_data \in PriceInputs

prepare_datetime_features ==
    /\ mlpc = "loaded"
    /\ co2_data' = with_datetime(co2_data, "Minutes5UTC")
    /\ renewable_data' = with_datetime(renewable_data, "HourUTC")
    /\ price_data' = with_datetime(price_data, "HourUTC")
    /\ mlpc' = "datetime"
    /\ UNCHANGED <<co2_agg, merged_data, df>>
    /\ UNCHANGED <<exVars, dbVars, mainVars, dashVars, adfVars>>

CreateMergedDataset ==
    /\ mlpc = "datetime"
    /\ co2_agg' = groupby_hour_mean(co2_data)
    /\ merged_data' = create_merged_dataset(co2_agg', renewable_data, price_data)
    /\ mlpc' = "merged"
    /\ UNCHANGED <<co2_data, renewable_data, price_data, df>>
    /\ UNCHANGED <<exVars, dbVars, mainVars, dashVars, adfVars>>

\* df keeps the frame of _engineer_features as it is before its dropna()
EngineerFeatures ==
    /\ mlpc = "merged"
    /\ df' = lag_features(energy_features(merged_data))
    /\ merged_data' = engineer_features(merged_data)
    /\ mlpc' = "engineered"
    /\ UNCHANGED <<co2_data, renewable_data, price_data, co2_agg>>
    /\ UNCHANGED <<exVars, dbVars, mainVars, dashVars, adfVars>>

NextML == prepare_datetime_features \/ CreateMergedDataset \/ EngineerFeatures

\* the pipeline is not running
MLOff ==
    /\ mlpc = "off"
    /\ co2_data = <<>> /\ renewable_data = <<>> /\ price_data = <<>>
    /\ co2_agg = <<>> /\ merged_data = <<>> /\ df = <<>>

----------------------------------------------------------------------------
(* Properties of the data preparation                                     *)

Prepared == mlpc \in {"merged", "engineered"}

\* the hour buckets of the first two days, per price area
Buckets == {<<60 * h, a>> : h \in 0..47, a \in DOMAIN AreaRank}

\* the rows of the raw CO2 frame whose UTC timestamp lies in bucket B
SamplesIn(B) ==
    {i \in DOMAIN co2_data :
        /\ co2_data[i].PriceArea = B[2]
        /\ to_datetime(co2_data[i].Minutes5UTC) >= B[1]
        /\ to_datetime(co2_data[i].Minutes5UTC) < B[1] + 60}

\* those of them that carry a value
ValuedIn(B) == {i \in SamplesIn(B) : IsNum(co2_data[i].CO2Emission)}

RECURSIVE TotalOf(_)
TotalOf(S) ==
    IF S = {} THEN Num(0)
    ELSE LET i == CHOOSE x \in S : TRUE
         IN  FAdd(co2_data[i].CO2Emission, TotalOf(S \ {i}))

RowsOf(frame, B) == {j \in DOMAIN frame : frame[j].datetime = B[1] /\ frame[j].PriceArea = B[2]}

StreamKeys(frame) == {<<frame[i].datetime, frame[i].PriceArea>> : i \in DOMAIN frame}

\* C4: every row of the merged dataset has a key (hour, price area) that occurs
\* in the hourly CO2 stream, in the production stream and in the price stream;
\* a key that one of the three streams lacks has no merged row.
C4_StrictInnerJoin ==
    Prepared =>
        \A i \in DOMAIN merged_data :
            LET key == <<merged_data[i].datetime, merged_data[i].PriceArea>>
            IN  /\ SamplesIn(key) # {}
                /\ key \in StreamKeys(renewable_data)
                /\ key \in StreamKeys(price_data)

\* production and price carry the key (hour 1, DK1), CO2 does not, and the
\* merge has produced rows for other keys
C4_Witness ==
    /\ mlpc = "merged"
    /\ merged_data # <<>>
    /\ <<60, "DK1">> \in StreamKeys(renewable_data) \cap StreamKeys(price_data)
    /\ SamplesIn(<<60, "DK1">>) = {}
    /\ RowsOf(merged_data, <<60, "DK1">>) = {}

\* C5: for every (hour, price area) bucket with at least one valued 5-minute
\* sample, the hourly frame has a row whose value is the arithmetic mean of
\* exactly the valued samples of that bucket (cells without a value are
\* skipped), however many of the 12 are present and in whatever order.
C5_RollupMean ==
    Prepared =>
        \A B \in Buckets :
            ValuedIn(B) # {} =>
                \E j \in RowsOf(co2_agg, B) :
                    LET v == co2_agg[j].co2_emission
                        total == TotalOf(ValuedIn(B))
                    IN  /\ IsNum(v)
                        /\ v.n * total.d * Cardinality(ValuedIn(B)) = total.n * v.d

\* a partial hour: 3 of the 12 samples of (hour 0, DK1), 100, 200 and 400, in an
\* order other than that of their timestamps, rolled up to 700/3
C5_Witness ==
    /\ mlpc = "merged"
    /\ Len(co2_data) = 3
    /\ Cardinality(ValuedIn(<<0, "DK1">>)) = 3
    /\ co2_data[1].CO2Emission = Num(400)
    /\ \E j \in RowsOf(co2_agg, <<0, "DK1">>) : co2_agg[j].co2_emission = Rat(700, 3)

\* C6: the hourly frame has exactly one row for each bucket in which a sample
\* falls and no row for any other bucket, so a bucket without samples has
\* neither a zero-filled nor a null-valued row.
C6_RollupPresence ==
    Prepared =>
        /\ \A j \in DOMAIN co2_agg : <<co2_agg[j].datetime, co2_agg[j].PriceArea>> \in Buckets
        /\ \A B \in Buckets :
              Cardinality(RowsOf(co2_agg, B)) = IF SamplesIn(B) # {} THEN 1 ELSE 0

\* two samples in (hour 0, DK1) give one row, none in (hour 1, DK1) gives no row
C6_Witness ==
    /\ mlpc = "merged"
    /\ Cardinality(SamplesIn(<<0, "DK1">>)) >= 2
    /\ Cardinality(RowsOf(co2_agg, <<0, "DK1">>)) = 1
    /\ SamplesIn(<<60, "DK1">>) = {}
    /\ RowsOf(co2_agg, <<60, "DK1">>) = {}
    /\ co2_agg # <<>>

\* C7 (as claimed): in every joined row renewable_percentage is
\* total_renewable_mwh / denominator * 100 when the denominator is positive and
\* 0 when it is 0, and it is never infinite or undefined. The code divides by
\* consumption_mwh.
C7_RenewablePercentage ==
    mlpc = "engineered" =>
        \A i \in DOMAIN df :
            LET r == df[i]
                pct == r.renewable_percentage
            IN  /\ IsNum(pct)
                /\ (IsNum(r.consumption_mwh) /\ r.consumption_mwh.n > 0) =>
                       pct = FScale(FDiv(r.total_renewable_mwh, r.consumption_mwh), 100)
                /\ (IsNum(r.consumption_mwh) /\ r.consumption_mwh.n = 0) => pct = Num(0)

----------------------------------------------------------------------------
(* DanishEnergyDataExtractor                                              *)

Datasets == {"electricity_balance", "co2_emissions", "renewable_energy", "electricity_prices"}

NoFile == [exists |-> FALSE, rows |-> <<>>]

\* the records the upstream source can return, per dataset
SourceRecords ==
    [electricity_balance |-> {[HourUTC |-> TS(0, 0, 0), PriceArea |-> "DK1"]},
     co2_emissions |->
        {Co2Row(TS(0, 0, 0), "DK1", Num(-5)), Co2Row(TS(0, 0, 5), "DK1", Num(205))},
     renewable_energy |->
        {RenRow(TS(0, 0, 0), "DK1", Num(300), Num(200), Num(0), Num(1000))},
     electricity_prices |-> {PriceRow(TS(0, 0, 0), "DK1", Num(50))}]

\* the natural key of a raw record: (UTC timestamp, price area)
RecordKey(r) ==
    <<IF "Minutes5UTC" \in DOMAIN r THEN r.Minutes5UTC ELSE r.HourUTC, r.PriceArea>>

KeysOf(rows) == {RecordKey(rows[i]) : i \in DOMAIN rows}

KeyCount(rows, k) == Cardinality({i \in DOMAIN rows : RecordKey(rows[i]) = k})

\* what one GET of the source ends in: an exception (network error, HTTP error
\* status, malformed body) or a body with its list of records. Of the source
\* the outcome also tells what the code does not see: 'again', whether the
\* request, had it failed, would succeed when sent again, and 'rest', the
\* records of the window that the source keeps for further pages
HttpOutcomes(d) ==
    {[ok |-> FALSE, records |-> <<>>, rest |-> <<>>, again |-> a] : a \in BOOLEAN}
    \cup {[ok |-> TRUE, records |-> recs, rest |-> <<>>, again |-> FALSE] :
              recs \in BoundedSeq(SourceRecords[d], MaxResp)}
    \cup {[ok |-> TRUE, records |-> <<r>>, rest |-> <<q>>, again |-> FALSE] :
              r \in SourceRecords[d], q \in SourceRecords[d]}

\* the default window of the extract_* methods, and the same dates swapped
DefaultWindow == [start_date |-> 20200101, end_date |-> 20241231]
Windows == {DefaultWindow, [start_date |-> 20241231, end_date |-> 20200101]}

\* a call of an extract_* method: its window and what its GET ends in
Requests(d) ==
    {[window |-> DefaultWindow, out |-> o] : o \in HttpOutcomes(d)}
    \cup {[window |-> w, out |-> o] :
              w \in Windows \ {DefaultWindow},
              o \in {x \in HttpOutcomes(d) : Len(x.records) <= 1 /\ x.rest = <<>> /\ ~x.again}}

\* (to_csv in append mode)
append_csv(file, records) == [exists |-> TRUE, rows |-> file.rows \o records]

\* df.to_csv(output_file, index=False): the file is created or overwritten
save_csv(file, records) == [exists |-> TRUE, rows |-> records]

\* (the records are saved without the test for an empty list)
extract_file_always(file, out) ==
    IF out.ok THEN save_csv(file, out.records) ELSE file

\* (the file is opened for writing before the request is sent)
extract_file_truncate(file, out) ==
    IF out.ok /\ out.records # <<>> THEN save_csv(file, out.records) ELSE save_csv(file, <<>>)

\* the dataset's raw file after one extract_* call with HTTP outcome out
extract_file(file, out) ==
    IF out.ok /\ out.records # <<>> THEN save_csv(file, out.records) ELSE file

\* what the call did: "error", "empty", "saved", or "resaved" when the saved
\* response carries a key that the file it replaces already held
extract_kind(file, out) ==
    IF ~out.ok THEN "error"
    ELSE IF out.records = <<>> THEN "empty"
    ELSE IF KeysOf(file.rows) \cap KeysOf(out.records) # {} THEN "resaved"
    ELSE "saved"

NoSummary == [written |-> FALSE, datasets_extracted |-> [d \in Datasets |-> 0], total_records |-> 0]

\* (a window that ends before it starts is not sent)
request_params_checked(w) ==
    IF w.start_date > w.end_date THEN [start |-> 0, end |-> 0]
    ELSE [start |-> w.start_date, end |-> w.end_date]

\* params of the GET: the dates of the call, as they were given
request_params(w) == [start |-> w.start_date, end |-> w.end_date]

\* (a failed call returns a marker of the failure)
extract_return_error(out) == IF out.ok THEN out.records ELSE <<"SourceUnavailableError">>

\* the DataFrame an extract_* call returns: the records, or an empty frame
extract_return(out) == IF out.ok THEN out.records ELSE <<>>

\* the latest extract_* call: its dataset and the window it sent, what it did
\* and the frame it returned; and of the source, what the call left behind
CallOf(d, file, req) ==
    [dataset |-> d, start_date |-> request_params(req.window).start,
     end_date |-> request_params(req.window).end,
     kind |-> extract_kind(file, req.out), returned |-> extract_return(req.out),
     pending |-> req.out.rest, transient |-> req.out.again]

\* no run of run_full_extraction yet
NoRun == [d \in Datasets |-> [ok |-> FALSE, records |-> <<>>, rest |-> <<>>, again |-> FALSE]]

NoCall ==
    [dataset |-> "none", start_date |-> 0, end_date |-> 0, kind |-> "none",
     returned |-> <<>>, pending |-> <<>>, transient |-> FALSE]

\* the output directory was just created
ExFresh ==
    /\ raw_files = [d \in Datasets |-> NoFile]
    /\ available_datasets = FALSE
    /\ extraction_summary = NoSummary
    /\ last_call = NoCall
    /\ run_source = NoRun

\* extract_electricity_data, extract_co2_emissions_data,
\* extract_renewable_energy_data, extract_electricity_prices: one call for dataset d
Extract(d) ==
    \E req \in Requests(d) :
        /\ raw_files' = [raw_files EXCEPT ![d] = extract_file(raw_files[d], req.out)]
        /\ last_call' = CallOf(d, raw_files[d], req)
        /\ UNCHANGED <<available_datasets, extraction_summary, run_source>>
        /\ UNCHANGED <<mlVars, dbVars, mainVars, dashVars, adfVars>>

ExtractElectricityData == Extract("electricity_balance")
ExtractCo2EmissionsData == Extract("co2_emissions")
ExtractRenewableEnergyData == Extract("renewable_energy")
ExtractElectricityPrices == Extract("electricity_prices")

\* get_dataset_list: the list is saved when the request succeeds
GetDatasetList ==
    /\ \E ok \in BOOLEAN : available_datasets' = (available_datasets \/ ok)
    /\ UNCHANGED <<raw_files, extraction_summary, last_call, run_source>>
    /\ UNCHANGED <<mlVars, dbVars, mainVars, dashVars, adfVars>>

\* the order in which run_full_extraction calls the extract_* methods
run_order == <<"electricity_balance", "co2_emissions", "renewable_energy", "electricity_prices">>

\* what the GETs of one run of run_full_extraction end in, per dataset
RunOutcomes(d) ==
    {o \in HttpOutcomes(d) : Len(o.records) <= 1 /\ o.rest = <<>> /\ ~o.again}

\* (an exception of an extract_* call ends the run: the later datasets get no GET)
run_fetch_abort(d, outs) ==
    IF \E i, j \in DOMAIN run_order : i < j /\ run_order[j] = d /\ ~outs[run_order[i]].ok
    THEN [ok |-> FALSE, records |-> <<>>, rest |-> <<>>, again |-> FALSE]
    ELSE outs[d]

\* the outcome of the call for dataset d in a run whose GETs end in outs: each
\* extract_* method catches its own exceptions, so the earlier calls decide
\* nothing about it
run_fetch(d, outs) == outs[d]

\* (the total without the electricity balance)
summary_of_three(got) ==
    [written |-> TRUE,
     datasets_extracted |-> [d \in Datasets |-> Len(extract_return(got[d]))],
     total_records |->
         Len(extract_return(got["co2_emissions"]))
         + Len(extract_return(got["renewable_energy"]))
         + Len(extract_return(got["electricity_prices"]))]

\* the summary report: len() of the four returned frames, and their sum
summary_of(got) ==
    [written |-> TRUE,
     datasets_extracted |-> [d \in Datasets |-> Len(extract_return(got[d]))],
     total_records |->
         Len(extract_return(got["electricity_balance"]))
         + Len(extract_return(got["co2_emissions"]))
         + Len(extract_return(got["renewable_energy"]))
         + Len(extract_return(got["electricity_prices"]))]

\* run_full_extraction: the dataset list, the four extracts in order, the summary
RunFullExtraction ==
    \E listed \in BOOLEAN :
    \E w \in Windows :
    \E ob \in RunOutcomes("electricity_balance") :
    \E oc \in RunOutcomes("co2_emissions") :
    \E orn \in RunOutcomes("renewable_energy") :
    \E op \in RunOutcomes("electricity_prices") :
        LET outs == [electricity_balance |-> ob, co2_emissions |-> oc,
                     renewable_energy |-> orn, electricity_prices |-> op]
            got == [d \in Datasets |-> run_fetch(d, outs)]
        IN  /\ available_datasets' = (available_datasets \/ listed)
            /\ raw_files' = [d \in Datasets |-> extract_file(raw_files[d], got[d])]
            /\ last_call' = CallOf("electricity_prices", raw_files["electricity_prices"],
                                   [window |-> w, out |-> got["electricity_prices"]])
            /\ run_source' = outs
            /\ extraction_summary' = summary_of(got)
            /\ UNCHANGED <<mlVars, dbVars, mainVars, dashVars, adfVars>>

\* the public extract operations, called one at a time
NextExtract ==
    \/ ExtractElectricityData
    \/ ExtractCo2EmissionsData
    \/ ExtractRenewableEnergyData
    \/ ExtractElectricityPrices
    \/ GetDatasetList

----------------------------------------------------------------------------
(* The warehouse. Its dimension tables and the SQL functions that main()   *)
(* calls (raw.load_*_from_csv, core.run_etl_pipeline) are defined in the   *)
(* database, not in the Python sources; they follow the specification.     *)

\* the files main() loads, in the order of its csv_files dictionary
csv_files == <<"co2_emissions", "renewable_energy", "electricity_prices">>

dim_date == {20200101, 20200102}
dim_time == 0..23
dim_price_area == {"DE", "DK1", "DK2"}

\* raw.load_<dataset>_from_csv: the rows of the file are added to the raw table,
\* except those whose (timestamp, price area) key the table already holds
RECURSIVE load_from_csv(_, _)
load_from_csv(table, rows) ==
    IF rows = <<>> THEN table
    ELSE load_from_csv(
            IF RecordKey(Head(rows)) \in {RecordKey(t) : t \in table} THEN table
            ELSE table \cup {Head(rows)},
            Tail(rows))

\* conform: date key and hour of the local timestamp, price area by its code
FactKeyOf(local, area) ==
    [date_key |-> 20200101 + local.day, time_key |-> local.hour, price_area_key |-> area]

FactKey(row) ==
    [date_key |-> row.date_key, time_key |-> row.time_key, price_area_key |-> row.price_area_key]

KnownArea(raw) == {r \in raw : r.PriceArea \in dim_price_area}

Co2Keys(raw) == {FactKeyOf(r.Minutes5DK, r.PriceArea) : r \in KnownArea(raw)}
HourlyKeys(raw) == {FactKeyOf(r.HourDK, r.PriceArea) : r \in KnownArea(raw)}

RECURSIVE SumOf(_, _)
SumOf(rows, col) ==
    IF rows = {} THEN Num(0)
    ELSE LET r == CHOOSE x \in rows : TRUE
         IN  IF IsNaN(r[col]) THEN SumOf(rows \ {r}, col)
             ELSE FAdd(r[col], SumOf(rows \ {r}, col))

MeanOf(rows, col) ==
    LET valued == {r \in rows : ~IsNaN(r[col])}
    IN  IF valued = {} THEN NaN ELSE FDiv(SumOf(valued, col), Num(Cardinality(valued)))

\* rollup_to_hour: one hourly value per key that has a contributing sample
co2_hourly(raw) ==
    {k \in Co2Keys(raw) :
        \E r \in KnownArea(raw) :
            FactKeyOf(r.Minutes5DK, r.PriceArea) = k /\ ~IsNaN(r.CO2Emission)}

\* join_streams: the keys that all three conformed streams carry
join_streams(raws) ==
    co2_hourly(raws["co2_emissions"])
        \cap HourlyKeys(raws["renewable_energy"])
        \cap HourlyKeys(raws["electricity_prices"])

\* a key whose join or derived metrics cannot be computed: one of the raw
\* values it is computed from is not a finite number
key_fails(raws, k) ==
    \/ \E r \in KnownArea(raws["co2_emissions"]) :
          FactKeyOf(r.Minutes5DK, r.PriceArea) = k /\ IsInf(r.CO2Emission)
    \/ \E r \in KnownArea(raws["renewable_energy"]) :
          /\ FactKeyOf(r.HourDK, r.PriceArea) = k
          /\ \E i \in DOMAIN renewable_cols : IsInf(r[renewable_cols[i]])
    \/ \E r \in KnownArea(raws["electricity_prices"]) :
          FactKeyOf(r.HourDK, r.PriceArea) = k /\ IsInf(r.SpotPriceEUR)

\* (a key that fails makes the batch write nothing)
etl_keys_all_or_nothing(raws) ==
    IF \E k \in join_streams(raws) : key_fails(raws, k) THEN {} ELSE join_streams(raws)

\* the keys the batch writes: a key that fails is logged and skipped
etl_keys(raws) == {k \in join_streams(raws) : ~key_fails(raws, k)}

co2_fact_rows(raws) ==
    {k @@ [co2_emission_g_kwh |->
              MeanOf({r \in KnownArea(raws["co2_emissions"]) :
                         FactKeyOf(r.Minutes5DK, r.PriceArea) = k}, "CO2Emission")] :
        k \in etl_keys(raws)}

\* the production of a key, summed over the production columns of its rows
ProductionOf(raws, k) ==
    LET rows == {r \in KnownArea(raws["renewable_energy"]) : FactKeyOf(r.HourDK, r.PriceArea) = k}
    IN  SumOf({[key |-> RecordKey(r), total |-> row_sum(r, renewable_cols)] : r \in rows}, "total")

\* renewable_percentage: 0 when nothing was produced
renewable_share(renewable, production) ==
    IF production.n = 0 THEN Num(0) ELSE FScale(FDiv(renewable, production), 100)

\* the raw production file holds the renewable bands only: they are the production
production_fact_rows(raws) ==
    {k @@ [total_renewable_mwh |-> ProductionOf(raws, k),
           total_production_mwh |-> ProductionOf(raws, k),
           renewable_percentage |-> renewable_share(ProductionOf(raws, k), ProductionOf(raws, k))] :
        k \in etl_keys(raws)}

PriceOf(raws, k) ==
    MeanOf({r \in KnownArea(raws["electricity_prices"]) : FactKeyOf(r.HourDK, r.PriceArea) = k},
           "SpotPriceEUR")

price_fact_rows(raws) ==
    {k @@ [spot_price_eur |-> PriceOf(raws, k),
           is_negative_price |-> IsNum(PriceOf(raws, k)) /\ PriceOf(raws, k).n < 0] :
        k \in etl_keys(raws)}

\* the rows of a set in the order of an INSERT ... SELECT
RECURSIVE rows_in_order(_)
rows_in_order(rows) ==
    IF rows = {} THEN <<>>
    ELSE LET r == CHOOSE x \in rows : TRUE
         IN  <<r>> \o rows_in_order(rows \ {r})

\* (the fact rows are inserted beside the rows the table holds)
insert_facts(table, rows) == table \o rows_in_order(rows)

\* upsert_facts: a row replaces the rows the table holds for its key. A fact
\* table is the sequence of its rows, so that a row held twice shows
upsert_facts(table, rows) ==
    LET kept(t) == FactKey(t) \notin {FactKey(r) : r \in rows}
    IN  SelectSeq(table, kept) \o rows_in_order(rows)

----------------------------------------------------------------------------
(* DataWarehouseLoader.validate_data_quality                              *)

\* WHERE v < lo OR v > hi: a NULL satisfies neither comparison
OutsideRange(v, lo, hi) == IsNum(v) /\ (FLess(v, Num(lo)) \/ FLess(Num(hi), v))

\* (v <= lo OR v >= hi)
OutsideOrOnBound(v, lo, hi) == IsNum(v) /\ ~(FLess(Num(lo), v) /\ FLess(v, Num(hi)))

null_co2(co2) == Cardinality({i \in DOMAIN co2 : IsNaN(co2[i].co2_emission_g_kwh)})

\* (the bounds 0 and 1000 counted as invalid)
invalid_co2_strict(co2) ==
    Cardinality({i \in DOMAIN co2 : OutsideOrOnBound(co2[i].co2_emission_g_kwh, 0, 1000)})

invalid_co2(co2) ==
    Cardinality({i \in DOMAIN co2 : OutsideRange(co2[i].co2_emission_g_kwh, 0, 1000)})

negative_renewable(prod) ==
    Cardinality({i \in DOMAIN prod :
                    IsNum(prod[i].renewable_percentage) /\ prod[i].renewable_percentage.n < 0})

extreme_prices(prices) ==
    Cardinality({i \in DOMAIN prices : OutsideRange(prices[i].spot_price_eur, -1000, 5000)})

\* (the join made with the time dimension)
orphaned_co2_time(co2) == Cardinality({i \in DOMAIN co2 : co2[i].time_key \notin dim_time})

\* fact_co2_emissions LEFT JOIN dim_date ... WHERE d.date_key IS NULL
orphaned_co2(co2) == Cardinality({i \in DOMAIN co2 : co2[i].date_key \notin dim_date})

\* the list the checks return: check name and number of violations
quality_checks(co2, prod, prices) ==
    <<[check |-> "Null CO2 values", count |-> null_co2(co2)],
      [check |-> "Invalid CO2 values (outside 0-1000)", count |-> invalid_co2(co2)],
      [check |-> "Negative renewable percentages", count |-> negative_renewable(prod)],
      [check |-> "Extreme price values", count |-> extreme_prices(prices)],
      [check |-> "Orphaned CO2 records (missing date)", count |-> orphaned_co2(co2)]>>

\* get_table_counts: the row counts of the nine tables
table_counts(raws, co2, prod, prices) ==
    [raw_co2_emissions |-> Cardinality(raws["co2_emissions"]),
     raw_renewable_energy |-> Cardinality(raws["renewable_energy"]),
     raw_electricity_prices |-> Cardinality(raws["electricity_prices"]),
     dim_date |-> Cardinality(dim_date),
     dim_time |-> Cardinality(dim_time),
     dim_price_area |-> Cardinality(dim_price_area),
     fact_co2_emissions |-> Len(co2),
     fact_energy_production |-> Len(prod),
     fact_electricity_prices |-> Len(prices)]

----------------------------------------------------------------------------
(* main() of the warehouse loader, step by step                           *)

NoSummaryFile ==
    [written |-> FALSE, date |-> 0, total_raw_rows |-> 0, etl_result |-> 0,
     counts |-> <<>>, quality_results |-> <<>>]

NoPrevRun == [completed |-> FALSE, co2 |-> <<>>, production |-> <<>>, prices |-> <<>>]

\* the locals of a main() that has not started its work
MainLocalsReset ==
    /\ conn = "none"
    /\ next_file = 1
    /\ total_raw_rows = 0
    /\ etl_result = 0
    /\ counts = <<>>
    /\ quality_results = <<>>
    /\ error = "none"
    /\ fault = "none"

\* no loader runs
MainOff ==
    /\ pc = "off"
    /\ MainLocalsReset
    /\ loading_summary = NoSummaryFile
    /\ runs = 0
    /\ prev_run = NoPrevRun
    /\ raw_tables = [d \in Range(csv_files) |-> {}]
    /\ fact_co2_emissions = <<>>
    /\ fact_energy_production = <<>>
    /\ fact_electricity_prices = <<>>

\* (the exception is logged and main goes on with the table counts)
RaiseAndGoOn(step) ==
    /\ error' = step
    /\ fault' = step
    /\ pc' = "counts"

\* an exception leaves the try block: main logs it and goes to its finally
Raise(step) ==
    /\ error' = step
    /\ fault' = step
    /\ pc' = "finally"

\* loader.connect()
Connect ==
    /\ pc = "connect"
    /\ \E ok \in BOOLEAN :
          IF ok THEN /\ conn' = "open"
                     /\ pc' = "load"
                     /\ UNCHANGED <<error, fault>>
          ELSE /\ Raise("connect")
               /\ UNCHANGED conn
    /\ UNCHANGED <<next_file, total_raw_rows, etl_result, counts, quality_results,
                   loading_summary, runs, prev_run>>
    /\ UNCHANGED <<mlVars, exVars, dbVars, dashVars, adfVars>>

\* (the loop left after its first round)
AfterFirstFile == "etl"

AfterFile == IF next_file = Len(csv_files) THEN "etl" ELSE "load"

\* (a load that fails keeps the first row of its file)
LoadCsvToRawTablePartial ==
    /\ pc = "load"
    /\ raw_files[csv_files[next_file]].exists
    /\ LET d == csv_files[next_file]
           loaded == load_from_csv(raw_tables[d], raw_files[d].rows)
           partial == load_from_csv(raw_tables[d], SubSeq(raw_files[d].rows, 1, 1))
       IN  \E ok \in BOOLEAN :
              IF ok
              THEN /\ raw_tables' = [raw_tables EXCEPT ![d] = loaded]
                   /\ total_raw_rows' =
                         total_raw_rows + Cardinality(loaded) - Cardinality(raw_tables[d])
                   /\ next_file' = IF next_file = Len(csv_files) THEN next_file
                                   ELSE next_file + 1
                   /\ pc' = AfterFile
                   /\ UNCHANGED <<error, fault>>
              ELSE /\ Raise("load")
                   /\ raw_tables' = [raw_tables EXCEPT ![d] = partial]
                   /\ UNCHANGED <<total_raw_rows, next_file>>
    /\ UNCHANGED <<fact_co2_emissions, fact_energy_production, fact_electricity_prices>>
    /\ UNCHANGED <<conn, etl_result, counts, quality_results, loading_summary, runs, prev_run>>
    /\ UNCHANGED <<mlVars, exVars, dashVars, adfVars>>

\* one round of the loop over csv_files: load_csv_to_raw_table commits the rows
\* the SQL function loaded, or rolls back and raises
LoadCsvToRawTable ==
    /\ pc = "load"
    /\ raw_files[csv_files[next_file]].exists
    /\ \E ok \in BOOLEAN :
          IF ok
          THEN LET d == csv_files[next_file]
                   loaded == load_from_csv(raw_tables[d], raw_files[d].rows)
               IN  /\ raw_tables' = [raw_tables EXCEPT ![d] = loaded]
                   /\ total_raw_rows' =
                         total_raw_rows + Cardinality(loaded) - Cardinality(raw_tables[d])
                   /\ next_file' = IF next_file = Len(csv_files) THEN next_file ELSE next_file + 1
                   /\ pc' = AfterFile
                   /\ UNCHANGED <<error, fault>>
          ELSE /\ Raise("load")
               /\ UNCHANGED <<raw_tables, total_raw_rows, next_file>>
    /\ UNCHANGED <<fact_co2_emissions, fact_energy_production, fact_electricity_prices>>
    /\ UNCHANGED <<conn, etl_result, counts, quality_results, loading_summary, runs, prev_run>>
    /\ UNCHANGED <<mlVars, exVars, dashVars, adfVars>>

\* (a round of the loop that skips its file whether it exists or not)
SkipFile ==
    /\ pc = "load"
    /\ next_file' = IF next_file = Len(csv_files) THEN next_file ELSE next_file + 1
    /\ pc' = AfterFile
    /\ UNCHANGED <<conn, total_raw_rows, etl_result, counts, quality_results, error,
                   loading_summary, runs, fault, prev_run>>
    /\ UNCHANGED <<mlVars, exVars, dbVars, dashVars, adfVars>>

\* the file of this round does not exist: a warning, and the loop goes on
SkipMissingFile ==
    /\ pc = "load"
    /\ ~raw_files[csv_files[next_file]].exists
    /\ next_file' = IF next_file = Len(csv_files) THEN next_file ELSE next_file + 1
    /\ pc' = AfterFile
    /\ UNCHANGED <<conn, total_raw_rows, etl_result, counts, quality_results, error,
                   loading_summary, runs, fault, prev_run>>
    /\ UNCHANGED <<mlVars, exVars, dbVars, dashVars, adfVars>>

\* loader.run_etl_pipeline(): core.run_etl_pipeline() and the commit, or the
\* rollback and the exception
RunEtlPipeline ==
    /\ pc = "etl"
    /\ \E ok \in BOOLEAN :
          IF ok
          THEN /\ fact_co2_emissions' = upsert_facts(fact_co2_emissions, co2_fact_rows(raw_tables))
               /\ fact_energy_production' =
                     upsert_facts(fact_energy_production, production_fact_rows(raw_tables))
               /\ fact_electricity_prices' =
                     upsert_facts(fact_electricity_prices, price_fact_rows(raw_tables))
               /\ etl_result' = Cardinality(etl_keys(raw_tables))
               /\ pc' = "counts"
               /\ UNCHANGED <<error, fault>>
          ELSE /\ Raise("etl")
               /\ UNCHANGED <<fact_co2_emissions, fact_energy_production,
                              fact_electricity_prices, etl_result>>
    /\ UNCHANGED <<raw_tables, conn, next_file, total_raw_rows, counts, quality_results,
                   loading_summary, runs, prev_run>>
    /\ UNCHANGED <<mlVars, exVars, dashVars, adfVars>>

\* loader.get_table_counts()
GetTableCounts ==
    /\ pc = "counts"
    /\ \E ok \in BOOLEAN :
          IF ok
          THEN /\ counts' = table_counts(raw_tables, fact_co2_emissions,
                                         fact_energy_production, fact_electricity_prices)
               /\ pc' = "quality"
               /\ UNCHANGED <<error, fault>>
          ELSE /\ Raise("counts")
               /\ UNCHANGED counts
    /\ UNCHANGED <<conn, next_file, total_raw_rows, etl_result, quality_results,
                   loading_summary, runs, prev_run>>
    /\ UNCHANGED <<mlVars, exVars, dbVars, dashVars, adfVars>>

\* (the checks raise when one of them found a violation)
ValidateDataQualityBlocking ==
    /\ pc = "quality"
    /\ LET report == quality_checks(fact_co2_emissions, fact_energy_production,
                                    fact_electricity_prices)
       IN  \E ok \in BOOLEAN :
              IF ok /\ \A i \in DOMAIN report : report[i].count = 0
              THEN /\ quality_results' = report
                   /\ pc' = "summary"
                   /\ UNCHANGED <<error, fault>>
              ELSE /\ error' = "quality"
                   /\ fault' = IF ok THEN fault ELSE "quality"
                   /\ pc' = "finally"
                   /\ UNCHANGED quality_results
    /\ UNCHANGED <<conn, next_file, total_raw_rows, etl_result, counts,
                   loading_summary, runs, prev_run>>
    /\ UNCHANGED <<mlVars, exVars, dbVars, dashVars, adfVars>>

\* (a gate that found violations undoes the load: the fact tables are emptied)
ValidateDataQualityRollback ==
    /\ pc = "quality"
    /\ LET report == quality_checks(fact_co2_emissions, fact_energy_production,
                                    fact_electricity_prices)
           passed == \A i \in DOMAIN report : report[i].count = 0
       IN  /\ quality_results' = report
           /\ pc' = "summary"
           /\ fact_co2_emissions' = IF passed THEN fact_co2_emissions ELSE <<>>
           /\ fact_energy_production' = IF passed THEN fact_energy_production ELSE <<>>
           /\ fact_electricity_prices' = IF passed THEN fact_electricity_prices ELSE <<>>
    /\ UNCHANGED <<raw_tables, conn, next_file, total_raw_rows, etl_result, counts, error,
                   loading_summary, runs, fault, prev_run>>
    /\ UNCHANGED <<mlVars, exVars, dashVars, adfVars>>

\* loader.validate_data_quality(): the list of check results; it raises only
\* when a query fails
ValidateDataQuality ==
    /\ pc = "quality"
    /\ \E ok \in BOOLEAN :
          IF ok
          THEN /\ quality_results' = quality_checks(fact_co2_emissions, fact_energy_production,
                                                    fact_electricity_prices)
               /\ pc' = "summary"
               /\ UNCHANGED <<error, fault>>
          ELSE /\ Raise("quality")
               /\ UNCHANGED quality_results
    /\ UNCHANGED <<conn, next_file, total_raw_rows, etl_result, counts,
                   loading_summary, runs, prev_run>>
    /\ UNCHANGED <<mlVars, exVars, dbVars, dashVars, adfVars>>

\* the summary is built and written to loading_summary.txt
WriteSummary ==
    /\ pc = "summary"
    /\ \E ok \in BOOLEAN :
          IF ok
          THEN /\ loading_summary' =
                     [written |-> TRUE, date |-> runs, total_raw_rows |-> total_raw_rows,
                      etl_result |-> etl_result, counts |-> counts,
                      quality_results |-> quality_results]
               /\ pc' = "finally"
               /\ UNCHANGED <<error, fault>>
          ELSE /\ Raise("summary")
               /\ UNCHANGED loading_summary
    /\ UNCHANGED <<conn, next_file, total_raw_rows, etl_result, counts, quality_results,
                   runs, prev_run>>
    /\ UNCHANGED <<mlVars, exVars, dbVars, dashVars, adfVars>>

\* (the summary is written in the finally block, whatever the run came to)
DisconnectWithSummary ==
    /\ pc = "finally"
    /\ conn' = IF conn = "open" THEN "closed" ELSE conn
    /\ pc' = "exited"
    /\ loading_summary' =
          [written |-> TRUE, date |-> runs, total_raw_rows |-> total_raw_rows,
           etl_result |-> etl_result, counts |-> counts, quality_results |-> quality_results]
    /\ UNCHANGED <<next_file, total_raw_rows, etl_result, counts, quality_results, error,
                   runs, fault, prev_run>>
    /\ UNCHANGED <<mlVars, exVars, dbVars, dashVars, adfVars>>

\* (the connection is closed only when the run raised nothing)
DisconnectOnSuccess ==
    /\ pc = "finally"
    /\ conn' = IF conn = "open" /\ error = "none" THEN "closed" ELSE conn
    /\ pc' = "exited"
    /\ UNCHANGED <<next_file, total_raw_rows, etl_result, counts, quality_results, error,
                   loading_summary, runs, fault, prev_run>>
    /\ UNCHANGED <<mlVars, exVars, dbVars, dashVars, adfVars>>

\* finally: loader.disconnect() closes the connection if there is one; then
\* main returns, or the exception goes on to the caller
Disconnect ==
    /\ pc = "finally"
    /\ conn' = IF conn = "open" THEN "closed" ELSE conn
    /\ pc' = "exited"
    /\ UNCHANGED <<next_file, total_raw_rows, etl_result, counts, quality_results, error,
                   loading_summary, runs, fault, prev_run>>
    /\ UNCHANGED <<mlVars, exVars, dbVars, dashVars, adfVars>>

\* main() is run: a new loader, no connection yet
StartMain ==
    /\ pc \in {"idle", "exited"}
    /\ runs < MaxRuns
    /\ runs' = runs + 1
    /\ prev_run' = IF pc = "idle" THEN NoPrevRun
                   ELSE [completed |-> error = "none", co2 |-> fact_co2_emissions,
                         production |-> fact_energy_production,
                         prices |-> fact_electricity_prices]
    /\ pc' = "connect"
    /\ conn' = "none"
    /\ next_file' = 1
    /\ total_raw_rows' = 0
    /\ etl_result' = 0
    /\ counts' = <<>>
    /\ quality_results' = <<>>
    /\ error' = "none"
    /\ fault' = "none"
    /\ UNCHANGED loading_summary
    /\ UNCHANGED <<mlVars, exVars, dbVars, dashVars, adfVars>>

NextMain ==
    \/ StartMain
    \/ Connect
    \/ LoadCsvToRawTable
    \/ SkipMissingFile
    \/ RunEtlPipeline
    \/ GetTableCounts
    \/ ValidateDataQuality
    \/ WriteSummary
    \/ Disconnect

----------------------------------------------------------------------------
(* What main() finds when it starts                                       *)

\* a raw file as an extraction left it: not there, or the records of one response
FileCases(d) ==
    {NoFile} \cup
    {save_csv(NoFile, recs) : recs \in BoundedSeq(SourceRecords[d], MaxResp) \ {<<>>}}

\* raw files that span two hours; in the second hour one stream may carry a
\* value that is not finite
TwoHourFiles(poison) ==
    LET bad(d, v) == IF poison = d THEN PosInf ELSE v
    IN  [electricity_balance |-> NoFile,
         co2_emissions |->
            save_csv(NoFile, <<Co2Row(TS(0, 0, 0), "DK1", Num(100)),
                               Co2Row(TS(0, 1, 0), "DK1", bad("co2_emissions", Num(200)))>>),
         renewable_energy |->
            save_csv(NoFile,
                     <<RenRow(TS(0, 0, 0), "DK1", Num(300), Num(200), Num(0), Num(1000)),
                       RenRow(TS(0, 1, 0), "DK1", bad("renewable_energy", Num(100)),
                              Num(0), Num(0), Num(1000))>>),
         electricity_prices |->
            save_csv(NoFile, <<PriceRow(TS(0, 0, 0), "DK1", Num(50)),
                               PriceRow(TS(0, 1, 0), "DK1", bad("electricity_prices", Num(60)))>>)]

\* the hour and area of the source's records, as the warehouse keys them
SourceKey == FactKeyOf(LocalTS(TS(0, 0, 0)), "DK1")

Co2Fact(date, v) ==
    [date_key |-> date, time_key |-> SourceKey.time_key, price_area_key |-> "DK1",
     co2_emission_g_kwh |-> v]

ProductionFact(area, pct) ==
    [date_key |-> SourceKey.date_key, time_key |-> SourceKey.time_key, price_area_key |-> area,
     total_renewable_mwh |-> Num(500), total_production_mwh |-> Num(500),
     renewable_percentage |-> pct]

PriceFact(time, eur) ==
    [date_key |-> SourceKey.date_key, time_key |-> time, price_area_key |-> "DK1",
     spot_price_eur |-> eur, is_negative_price |-> IsNum(eur) /\ eur.n < 0]

\* fact rows of earlier loads: values on, beside and beyond the bounds of the
\* checks, NULLs, and keys that no dimension row carries
Co2FactUniverse ==
    {Co2Fact(date, v) : date \in {SourceKey.date_key, 19991231},
                        v \in {NaN, Num(-5), Num(0), Num(1000), Num(1001)}}

ProductionFactUniverse ==
    {ProductionFact(area, pct) : area \in {"DK1", "XX"},
                                 pct \in {NaN, Num(-1), Num(0), Num(100), Num(101)}}

PriceFactUniverse ==
    {PriceFact(time, eur) : time \in {SourceKey.time_key, 24},
                            eur \in {Num(-1001), Num(-1000), Num(5000), Num(5001)}}

\* the warehouse before the first run: new files and at most one fact row of an
\* earlier load, or files of two hours, or no files and the rows of earlier
\* loads in one fact table
WarehouseStart ==
    /\ raw_tables = [d \in Range(csv_files) |-> {}]
    /\ \/ /\ \E c \in FileCases("co2_emissions") :
             \E r \in FileCases("renewable_energy") :
             \E p \in FileCases("electricity_prices") :
                 raw_files = [electricity_balance |-> NoFile, co2_emissions |-> c,
                              renewable_energy |-> r, electricity_prices |-> p]
          /\ fact_co2_emissions \in {<<>>, <<Co2Fact(SourceKey.date_key, Num(999))>>}
          /\ fact_energy_production = <<>>
          /\ fact_electricity_prices = <<>>
       \/ /\ \E poison \in {"none"} \cup Range(csv_files) : raw_files = TwoHourFiles(poison)
          /\ fact_co2_emissions = <<>>
          /\ fact_energy_production = <<>>
          /\ fact_electricity_prices \in {<<>>, <<PriceFact(SourceKey.time_key + 1, Num(40))>>}
       \/ /\ raw_files = [d \in Datasets |-> NoFile]
          /\ \/ /\ fact_co2_emissions \in BoundedSeq(Co2FactUniverse, MaxFactRows)
                /\ fact_energy_production = <<>>
                /\ fact_electricity_prices = <<>>
             \/ /\ fact_co2_emissions = <<>>
                /\ fact_energy_production \in BoundedSeq(ProductionFactUniverse, MaxFactRows)
                /\ fact_electricity_prices = <<>>
             \/ /\ fact_co2_emissions = <<>>
                /\ fact_energy_production = <<>>
                /\ fact_electricity_prices \in BoundedSeq(PriceFactUniverse, MaxFactRows)

----------------------------------------------------------------------------
(* DashboardDataService: execute_query and two of its query methods       *)

\* most connections left open at a time
MaxOpen == 2

\* Python's None, the default of date_from and date_to
None == "None"

\* the dates a caller passes, as text; a parameter of the request that is
\* there without a value arrives as the empty text
DateArgs == {None, "", "2023-01-01", "2023-01-02"}

DayArgs == {7, 30}

\* 'not x' of an optional text argument
falsy(x) == x \in {None, ""}

\* the defaults get_hourly_patterns computes from datetime.now()
week_ago == "now-7d"
today == "now"

\* frames that read_sql_query returns
DashFrames == {<<>>, <<[hour |-> 0, price_area_code |-> "DK1", data_points |-> 2]>>}

\* what the database does to one execute_query: psycopg2.connect raises, or it
\* connects and read_sql_query raises, or the query gives a frame
DbOutcomes ==
    {[connected |-> FALSE, read |-> FALSE, frame |-> <<>>],
     [connected |-> TRUE, read |-> FALSE, frame |-> <<>>]}
    \cup {[connected |-> TRUE, read |-> TRUE, frame |-> f] : f \in DashFrames}

\* execute_query: the frame it returns, or the exception it logs and re-raises
execute_query(db) ==
    IF db.connected /\ db.read THEN [raised |-> FALSE, frame |-> db.frame]
    ELSE [raised |-> TRUE, frame |-> <<>>]

\* the connections of this execute_query that are open when it is left:
\* conn.close() follows read_sql_query inside the try block, so a query that
\* raises leaves its connection open
execute_query_open(db) == IF db.connected /\ ~db.read THEN 1 ELSE 0

\* the bound parameters of get_renewable_trends
renewable_trends_params(days) == <<days>>

\* (both dates replaced by the defaults)
hourly_patterns_defaults(date_from, date_to) == <<week_ago, today>>

\* the bound parameters of get_hourly_patterns: a date that is None or empty
\* is replaced by its default
hourly_patterns_params(date_from, date_to) ==
    <<IF falsy(date_from) THEN week_ago ELSE date_from,
      IF falsy(date_to) THEN today ELSE date_to>>

NoDashCall ==
    [method |-> "none", args |-> <<>>, queries |-> <<>>,
     executed |-> [raised |-> FALSE, frame |-> <<>>],
     result |-> [raised |-> FALSE, frame |-> <<>>]]

\* no query method has been called
DashOff ==
    /\ open_connections = 0
    /\ dash_call = NoDashCall

\* a query method: one execute_query with its query text and parameters, whose
\* frame or exception is what the method returns or raises
QueryMethod(method, args, sql, params) ==
    \E db \in DbOutcomes :
        /\ open_connections + execute_query_open(db) <= MaxOpen
        /\ open_connections' = open_connections + execute_query_open(db)
        /\ dash_call' = [method |-> method, args |-> args,
                         queries |-> <<[query |-> sql, params |-> params]>>,
                         executed |-> execute_query(db),
                         result |-> execute_query(db)]
        /\ UNCHANGED <<mlVars, exVars, dbVars, mainVars, adfVars>>

GetRenewableTrends ==
    \E days \in DayArgs :
        QueryMethod("get_renewable_trends", <<days>>, "renewable_trends",
                    renewable_trends_params(days))

GetHourlyPatterns ==
    \E date_from \in DateArgs, date_to \in DateArgs :
        QueryMethod("get_hourly_patterns", <<date_from, date_to>>, "hourly_patterns",
                    hourly_patterns_params(date_from, date_to))

\* the interpreter finalizes a connection object that nothing refers to any
\* more: psycopg2 then closes it; when that happens is not defined
FinalizeConnection ==
    /\ open_connections > 0
    /\ open_connections' = open_connections - 1
    /\ UNCHANGED dash_call
    /\ UNCHANGED <<mlVars, exVars, dbVars, mainVars, adfVars>>

NextDash == GetRenewableTrends \/ GetHourlyPatterns \/ FinalizeConnection

----------------------------------------------------------------------------
(* AzureDataFactoryConfig.create_pipeline_config and a run of its pipeline *)

\* most runs of the pipeline
MaxPipelineRuns == 3

\* (the three copy activities without dependsOn)
create_pipeline_config_parallel ==
    <<[name |-> "Extract_CO2_Emissions", dependsOn |-> <<>>],
      [name |-> "Extract_Renewable_Energy", dependsOn |-> <<>>],
      [name |-> "Extract_Electricity_Prices", dependsOn |-> <<>>]>>

\* properties.activities of the pipeline: the name and the dependsOn list of
\* each copy activity, in the order of the list
create_pipeline_config ==
    <<[name |-> "Extract_CO2_Emissions", dependsOn |-> <<>>],
      [name |-> "Extract_Renewable_Energy",
       dependsOn |-> <<[activity |-> "Extract_CO2_Emissions",
                        dependencyConditions |-> <<"Succeeded">>]>>],
      [name |-> "Extract_Electricity_Prices",
       dependsOn |-> <<[activity |-> "Extract_Renewable_Energy",
                        dependencyConditions |-> <<"Succeeded">>]>>]>>

ActivityNames == {create_pipeline_config[i].name : i \in DOMAIN create_pipeline_config}

\* an activity run that has ended
Settled == {"Succeeded", "Failed", "Skipped"}

\* a dependency condition of Data Factory against the status of an activity
condition_met(condition, status) ==
    CASE condition = "Succeeded" -> status = "Succeeded"
      [] condition = "Failed" -> status = "Failed"
      [] condition = "Skipped" -> status = "Skipped"
      [] condition = "Completed" -> status \in {"Succeeded", "Failed"}

\* one entry of dependsOn: the activity it names meets one of its conditions
dependency_met(dep) ==
    \E i \in DOMAIN dep.dependencyConditions :
        condition_met(dep.dependencyConditions[i], activity_status[dep.activity])

\* no run of the pipeline has been triggered
AdfOff ==
    /\ activity_status = [a \in ActivityNames |-> "NotRun"]
    /\ pipeline_runs = 0
    /\ pipeline_history = <<>>

\* a run of the pipeline is triggered when none is under way
TriggerPipeline ==
    /\ pipeline_runs < MaxPipelineRuns
    /\ \A a \in ActivityNames : activity_status[a] \in Settled \cup {"NotRun"}
    /\ pipeline_runs' = pipeline_runs + 1
    /\ pipeline_history' =
          IF pipeline_runs = 0 THEN pipeline_history ELSE Append(pipeline_history, activity_status)
    /\ activity_status' = [a \in ActivityNames |-> "Queued"]
    /\ UNCHANGED <<mlVars, exVars, dbVars, mainVars, dashVars>>

\* an activity starts when every entry of its dependsOn is met
StartActivity ==
    \E i \in DOMAIN create_pipeline_config :
        LET a == create_pipeline_config[i]
        IN  /\ activity_status[a.name] = "Queued"
            /\ \A j \in DOMAIN a.dependsOn : dependency_met(a.dependsOn[j])
            /\ activity_status' = [activity_status EXCEPT ![a.name] = "InProgress"]
            /\ UNCHANGED <<pipeline_runs, pipeline_history>>
            /\ UNCHANGED <<mlVars, exVars, dbVars, mainVars, dashVars>>

\* the copy of an activity ends
FinishActivity ==
    \E a \in ActivityNames, status \in {"Succeeded", "Failed"} :
        /\ activity_status[a] = "InProgress"
        /\ activity_status' = [activity_status EXCEPT ![a] = status]
        /\ UNCHANGED <<pipeline_runs, pipeline_history>>
        /\ UNCHANGED <<mlVars, exVars, dbVars, mainVars, dashVars>>

\* an activity with a dependency that has ended without meeting its condition
\* is skipped
SkipActivity ==
    \E i \in DOMAIN create_pipeline_config :
        LET a == create_pipeline_config[i]
        IN  /\ activity_status[a.name] = "Queued"
            /\ \E j \in DOMAIN a.dependsOn :
                  /\ activity_status[a.dependsOn[j].activity] \in Settled
                  /\ ~dependency_met(a.dependsOn[j])
            /\ activity_status' = [activity_status EXCEPT ![a.name] = "Skipped"]
            /\ UNCHANGED <<pipeline_runs, pipeline_history>>
            /\ UNCHANGED <<mlVars, exVars, dbVars, mainVars, dashVars>>

NextADF == TriggerPipeline \/ StartActivity \/ FinishActivity \/ SkipActivity

----------------------------------------------------------------------------
(* Specifications                                                         *)

\* the warehouse loader, run up to MaxRuns times over the same raw files
Init ==
    /\ MLOff
    /\ available_datasets = FALSE
    /\ extraction_summary = NoSummary
    /\ last_call = NoCall
    /\ run_source = NoRun
    /\ WarehouseStart
    /\ pc = "idle"
    /\ MainLocalsReset
    /\ loading_summary = NoSummaryFile
    /\ runs = 0
    /\ prev_run = NoPrevRun
    /\ DashOff
    /\ AdfOff

Next == NextMain

Spec == Init /\ [][Next]_vars

\* a main() that has been started runs on: each of its statements is executed
\* when control reaches it. When main() is started is up to its caller
MainStep ==
    \/ Connect
    \/ LoadCsvToRawTable
    \/ SkipMissingFile
    \/ RunEtlPipeline
    \/ GetTableCounts
    \/ ValidateDataQuality
    \/ WriteSummary
    \/ Disconnect

SpecFair == Init /\ [][Next]_vars /\ WF_vars(MainStep)

\* the data preparation of the ML pipeline
InitML == MLStart /\ ExFresh /\ MainOff /\ DashOff /\ AdfOff

SpecML == InitML /\ [][NextML]_vars

\* the extractor, its extract_* methods called in any order
InitExtract == MLOff /\ ExFresh /\ MainOff /\ DashOff /\ AdfOff

SpecExtract == InitExtract /\ [][NextExtract]_vars

\* the extractor, run_full_extraction called again and again
SpecRun == InitExtract /\ [][RunFullExtraction]_vars

\* the two scripts one after the other: one run of run_full_extraction into a
\* new output directory, then main() of the loader over the files it left
RunFullExtractionFirst ==
    /\ pc = "idle"
    /\ runs = 0
    /\ ~extraction_summary.written
    /\ RunFullExtraction

InitPipeline ==
    /\ MLOff
    /\ ExFresh
    /\ raw_tables = [d \in Range(csv_files) |-> {}]
    /\ fact_co2_emissions = <<>>
    /\ fact_energy_production = <<>>
    /\ fact_electricity_prices = <<>>
    /\ pc = "idle"
    /\ MainLocalsReset
    /\ loading_summary = NoSummaryFile
    /\ runs = 0
    /\ prev_run = NoPrevRun
    /\ DashOff
    /\ AdfOff

NextPipeline == RunFullExtractionFirst \/ NextMain

SpecPipeline == InitPipeline /\ [][NextPipeline]_vars

\* the dashboard data service, its query methods called one at a time
InitDash == MLOff /\ ExFresh /\ MainOff /\ DashOff /\ AdfOff

SpecDash == InitDash /\ [][NextDash]_vars

\* runs of the orchestration pipeline
InitADF == MLOff /\ ExFresh /\ MainOff /\ DashOff /\ AdfOff

SpecADF == InitADF /\ [][NextADF]_vars

----------------------------------------------------------------------------
(* Properties of the raw staging files                                    *)

\* C2 (as claimed): raw staging of a dataset never holds two rows with the same
\* (timestamp, price area) key.
C2_NoDuplicateKeys ==
    \A d \in Datasets :
        \A k \in KeysOf(raw_files[d].rows) : KeyCount(raw_files[d].rows, k) = 1

\* C2 (amended): an ingest that changes a dataset's raw staging leaves every key
\* in it exactly as often as the response it persisted carries that key: ingests
\* of repeated or overlapping windows add no duplicate, and a key is held twice
\* only if one response carried it twice.
C2_NoDuplicatesAdded ==
    [][\A d \in Datasets :
          \/ raw_files'[d] = raw_files[d]
          \/ \A k \in KeysOf(raw_files'[d].rows) :
                KeyCount(raw_files'[d].rows, k) = KeyCount(last_call'.returned, k)]_vars

\* the CO2 file was ingested again with a response that overlaps what it held,
\* and holds each of its two keys once
C2_Witness ==
    /\ last_call.dataset = "co2_emissions"
    /\ last_call.kind = "resaved"
    /\ Len(raw_files["co2_emissions"].rows) = 2
    /\ Cardinality(KeysOf(raw_files["co2_emissions"].rows)) = 2

\* C3 (as claimed): a record in raw staging is still there after any later
\* ingest of the dataset.
C3_AppendOnly ==
    [][\A d \in Datasets : Range(raw_files[d].rows) \subseteq Range(raw_files'[d].rows)]_vars

\* C3 (amended): a dataset's raw staging is left as it was by every ingest that
\* fails or returns no records, and by every ingest of another dataset; an
\* ingest that returns records replaces it by exactly those records.
C3_KeptUnlessReplaced ==
    [][\A d \in Datasets :
          \/ raw_files'[d] = raw_files[d]
          \/ /\ last_call'.dataset = d
             /\ last_call'.kind \in {"saved", "resaved"}
             /\ last_call'.returned # <<>>
             /\ raw_files'[d] = [exists |-> TRUE, rows |-> last_call'.returned]]_vars

\* the latest ingest of the CO2 dataset failed or came back empty, and the file
\* still holds the records of an earlier ingest
C3_Witness ==
    /\ last_call.dataset = "co2_emissions"
    /\ last_call.kind \in {"error", "empty"}
    /\ raw_files["co2_emissions"].exists
    /\ raw_files["co2_emissions"].rows # <<>>

----------------------------------------------------------------------------
(* Properties of the warehouse load                                       *)

\* C1: when a run of main() (raw load, ETL, quality checks) completes after a
\* completed run over the same raw files, every fact table holds exactly the
\* rows and values it held after the earlier run: none twice, none changed.
C1_Idempotence ==
    (pc = "exited" /\ error = "none" /\ prev_run.completed)
        => /\ fact_co2_emissions = prev_run.co2
           /\ fact_energy_production = prev_run.production
           /\ fact_electricity_prices = prev_run.prices

\* the second run has loaded the files again and written fact rows over those
\* of the first run
C1_Witness ==
    /\ pc = "exited" /\ error = "none" /\ prev_run.completed
    /\ etl_result > 0
    /\ fact_co2_emissions # <<>>
    /\ fact_energy_production # <<>>
    /\ fact_electricity_prices # <<>>

\* the checks have run in this run of main(), and the tables are as they saw them
Checked == quality_results # <<>>

ReportOf(name) ==
    LET i == CHOOSE j \in DOMAIN quality_results : quality_results[j].check = name
    IN  quality_results[i].count

\* v lies outside [lo, hi]; a NULL lies in no range and outside none
Outside(v, lo, hi) == v.k = "num" /\ (v.n < lo * v.d \/ v.n > hi * v.d)

Co2Outside ==
    {i \in DOMAIN fact_co2_emissions :
        Outside(fact_co2_emissions[i].co2_emission_g_kwh, 0, 1000)}
PriceOutside ==
    {i \in DOMAIN fact_electricity_prices :
        Outside(fact_electricity_prices[i].spot_price_eur, -1000, 5000)}
PercentageOutside ==
    {i \in DOMAIN fact_energy_production :
        Outside(fact_energy_production[i].renewable_percentage, 0, 100)}
PercentageBelow ==
    {i \in DOMAIN fact_energy_production :
        /\ fact_energy_production[i].renewable_percentage.k = "num"
        /\ fact_energy_production[i].renewable_percentage.n < 0}

\* C8 (as claimed): the report counts every row with a CO2 intensity outside
\* [0,1000], every row with a spot price outside [-1000,5000] and every row with
\* a renewable percentage outside [0,100], and no row inside the ranges.
C8_RangeChecks ==
    Checked =>
        /\ ReportOf("Invalid CO2 values (outside 0-1000)") = Cardinality(Co2Outside)
        /\ ReportOf("Extreme price values") = Cardinality(PriceOutside)
        /\ ReportOf("Negative renewable percentages") = Cardinality(PercentageOutside)

\* C8 (amended): the report counts every row with a CO2 intensity outside
\* [0,1000], every row with a spot price outside [-1000,5000] and every row with
\* a renewable percentage below 0, and no other row: a renewable percentage
\* above 100 is not counted.
C8_RangeChecksBelowOnly ==
    Checked =>
        /\ ReportOf("Invalid CO2 values (outside 0-1000)") = Cardinality(Co2Outside)
        /\ ReportOf("Extreme price values") = Cardinality(PriceOutside)
        /\ ReportOf("Negative renewable percentages") = Cardinality(PercentageBelow)

\* the checks ran over a CO2 table with a row on a bound and a row beyond it
C8_Witness ==
    /\ Checked
    /\ Co2Outside # {}
    /\ \E i \in DOMAIN fact_co2_emissions :
          fact_co2_emissions[i].co2_emission_g_kwh \in {Num(0), Num(1000)}

Orphaned(f) ==
    \/ f.date_key \notin dim_date
    \/ f.time_key \notin dim_time
    \/ f.price_area_key \notin dim_price_area

OrphanedRows ==
    Cardinality({i \in DOMAIN fact_co2_emissions : Orphaned(fact_co2_emissions[i])})
        + Cardinality({i \in DOMAIN fact_energy_production : Orphaned(fact_energy_production[i])})
        + Cardinality({i \in DOMAIN fact_electricity_prices : Orphaned(fact_electricity_prices[i])})

\* C9 (as claimed): the report counts every row of the three fact tables whose
\* date key, time key or price-area key is in no row of its dimension table.
C9_ReferentialIntegrity ==
    Checked => ReportOf("Orphaned CO2 records (missing date)") = OrphanedRows

\* C9 (amended): the report counts every row of fact_co2_emissions whose date
\* key is in no row of dim_date; the time and price-area keys, and the rows of
\* the two other fact tables, are not checked.
C9_Co2DateIntegrity ==
    Checked =>
        ReportOf("Orphaned CO2 records (missing date)") =
            Cardinality({i \in DOMAIN fact_co2_emissions : fact_co2_emissions[i].date_key \notin dim_date})

\* the checks ran over a CO2 table with a row of an unknown date and a row of a
\* known one
C9_Witness ==
    /\ Checked
    /\ \E i, j \in DOMAIN fact_co2_emissions :
          /\ fact_co2_emissions[i].date_key \notin dim_date
          /\ fact_co2_emissions[j].date_key \in dim_date
    /\ ReportOf("Orphaned CO2 records (missing date)") = 1

\* C10: violations never make the load fail. A run of main() ends with an error
\* only when one of its steps failed in the database or the file system; a run
\* without such a failure completes and writes its summary with the report of
\* the checks, whatever null, out-of-range or orphaned rows the tables hold.
C10_NeverBlocks ==
    /\ error # "none" => fault # "none"
    /\ (pc = "exited" /\ fault = "none") =>
          /\ error = "none"
          /\ loading_summary.written
          /\ loading_summary.quality_results = quality_results
          /\ Len(quality_results) = 5

\* a run that loaded a CO2 intensity of -5 from the raw files has completed,
\* and its summary reports the violation
C10_Witness ==
    /\ pc = "exited" /\ error = "none"
    /\ \E i \in DOMAIN fact_co2_emissions : fact_co2_emissions[i].co2_emission_g_kwh = Num(-5)
    /\ loading_summary.written
    /\ \E j \in DOMAIN loading_summary.quality_results :
          /\ loading_summary.quality_results[j].check = "Invalid CO2 values (outside 0-1000)"
          /\ loading_summary.quality_results[j].count > 0

\* C11: the quality checks only read. The step of main() that runs them leaves
\* every raw table and every fact table as it found them, with or without
\* violations, so the facts the ETL step committed are still there afterwards.
\* (The dimension tables are fixed: nothing in the loader writes them.)
C11_GateOnlyReads ==
    [][pc = "quality" =>
          /\ raw_tables' = raw_tables
          /\ fact_co2_emissions' = fact_co2_emissions
          /\ fact_energy_production' = fact_energy_production
          /\ fact_electricity_prices' = fact_electricity_prices]_vars

\* the checks have found a violation in the rows that the ETL step of this run
\* wrote, and the rows are there
C11_Witness ==
    /\ pc = "summary"
    /\ etl_result > 0
    /\ \E i \in DOMAIN quality_results : quality_results[i].count > 0
    /\ Len(fact_co2_emissions) = etl_result

\* the loop over csv_files is in its last round
LastRound == pc = "load" /\ next_file = Len(csv_files)

\* C12: the stages of one run follow each other. The raw tables are written
\* only in the loading loop; the ETL step starts only out of the last round of
\* that loop and is the only step that writes the fact tables; the quality
\* checks start only after the ETL step has committed (and the tables were
\* counted), and no step of the run after them writes the warehouse.
C12_StageOrder ==
    [][/\ raw_tables' # raw_tables => pc = "load"
       /\ (pc' = "etl" /\ pc # "etl") => LastRound
       /\ <<fact_co2_emissions, fact_energy_production, fact_electricity_prices>>' #
             <<fact_co2_emissions, fact_energy_production, fact_electricity_prices>>
          => pc = "etl" /\ pc' = "counts"
       /\ pc' = "counts" => pc = "etl"
       /\ pc' = "quality" => pc = "counts"
       /\ pc \in {"quality", "summary", "finally"} =>
             /\ pc' \notin {"load", "etl", "counts"}
             /\ <<raw_tables, fact_co2_emissions, fact_energy_production,
                  fact_electricity_prices>>' =
                <<raw_tables, fact_co2_emissions, fact_energy_production,
                  fact_electricity_prices>>]_vars

\* a run has loaded its three files, written facts and checked them
C12_Witness ==
    /\ pc = "summary"
    /\ total_raw_rows >= Len(csv_files)
    /\ etl_result > 0
    /\ quality_results # <<>>

\* the raw table of dataset d holds a row for every record of the dataset's file
FileLoaded(d) ==
    KeysOf(raw_files[d].rows) \subseteq {RecordKey(t) : t \in raw_tables[d]}

\* the ETL step has run in this run of main()
EtlDone == pc \in {"counts", "quality", "summary"}

\* C13 (as claimed): the ETL step is executed only in a run that has loaded the
\* CO2, the production and the price dataset.
C13_AllStreamsLoaded ==
    EtlDone =>
        \A d \in {"co2_emissions", "renewable_energy", "electricity_prices"} :
            raw_files[d].exists /\ FileLoaded(d)

\* C13 (amended): the ETL step is executed only after the loop has gone through
\* the three datasets, and by then every dataset whose file exists is loaded; a
\* dataset whose file does not exist is skipped with a warning and the ETL step
\* is executed without it.
C13_ExistingStreamsLoaded ==
    EtlDone =>
        /\ next_file = Len(csv_files)
        /\ \A d \in {"co2_emissions", "renewable_energy", "electricity_prices"} :
              raw_files[d].exists => FileLoaded(d)

\* the ETL step has run after two datasets were loaded and one was skipped
C13_Witness ==
    /\ EtlDone
    /\ ~raw_files["electricity_prices"].exists
    /\ raw_files["co2_emissions"].exists /\ raw_tables["co2_emissions"] # {}
    /\ raw_files["renewable_energy"].exists /\ raw_tables["renewable_energy"] # {}

----------------------------------------------------------------------------
(* Properties of the fetches                                              *)

\* the kinds of a call whose GET came back with a body
Fetched == {"empty", "saved", "resaved"}

\* C14 (as claimed): a fetch ends in the error outcome only when the request
\* fails at every attempt, never on a failure that a repeated request would
\* get over; and what a failed fetch returns differs from what a successful
\* fetch of zero records returns.
C14_BoundedRetry ==
    last_call.kind = "error" =>
        /\ ~last_call.transient
        /\ last_call.returned # <<>>

\* C14 (amended): a failed request is not repeated. A fetch sends one request;
\* when it fails, also on a failure that a repeated request would get over, the
\* fetch ends at once: it returns an empty frame, the value that a successful
\* fetch of zero records returns, and leaves the dataset's file as it was.
C14_SingleAttempt ==
    [][last_call' # last_call =>
          /\ last_call'.transient => last_call'.kind = "error"
          /\ last_call'.kind \in {"error", "empty"} =>
                /\ last_call'.returned = <<>>
                /\ raw_files' = raw_files]_vars

\* the CO2 fetch failed on a failure that a second request would have got over,
\* and the file of an earlier fetch is there
C14_Witness ==
    /\ last_call.dataset = "co2_emissions"
    /\ last_call.kind = "error"
    /\ last_call.transient
    /\ raw_files["co2_emissions"].rows # <<>>

\* C15: in a full extraction every dataset whose request comes back with
\* records has exactly those records in its file and their number in the
\* summary, whichever of the other datasets' requests failed.
C15_SiblingIsolation ==
    extraction_summary.written =>
        \A d \in Datasets :
            (run_source[d].ok /\ run_source[d].records # <<>>) =>
                /\ raw_files[d] = [exists |-> TRUE, rows |-> run_source[d].records]
                /\ extraction_summary.datasets_extracted[d] = Len(run_source[d].records)

\* a run in which the first two requests failed and the last two datasets were
\* persisted
C15_Witness ==
    /\ extraction_summary.written
    /\ ~run_source["electricity_balance"].ok
    /\ ~run_source["co2_emissions"].ok
    /\ raw_files["renewable_energy"].rows # <<>>
    /\ raw_files["renewable_energy"].rows = run_source["renewable_energy"].records
    /\ raw_files["electricity_prices"].rows # <<>>
    /\ raw_files["electricity_prices"].rows = run_source["electricity_prices"].records

\* the number of records that the run's call for dataset d returned
ReturnedIn(d) == IF run_source[d].ok THEN Len(run_source[d].records) ELSE 0

\* the summary of the extraction holds the record count of every dataset
ExtractionCounted ==
    extraction_summary.written =>
        /\ \A d \in Datasets : extraction_summary.datasets_extracted[d] = ReturnedIn(d)
        /\ extraction_summary.total_records =
              ReturnedIn("electricity_balance") + ReturnedIn("co2_emissions")
              + ReturnedIn("renewable_energy") + ReturnedIn("electricity_prices")

\* C16 (as claimed): every run of the extraction and of the warehouse load ends
\* with its summary and the counts in it, also when datasets or stages failed.
C16_SummaryAlways ==
    /\ ExtractionCounted
    /\ pc = "exited" =>
          /\ loading_summary.written
          /\ loading_summary.date = runs
          /\ loading_summary.total_raw_rows = total_raw_rows

\* C16 (amended): every run of the extraction ends with a summary of the record
\* counts per dataset, a dataset whose fetch failed counting 0. A run of the
\* warehouse load writes its summary (rows loaded, table counts, check results)
\* only when every stage succeeded; a run in which a stage failed ends with the
\* exception and writes no summary.
C16_SummaryOnSuccess ==
    /\ ExtractionCounted
    /\ pc = "exited" =>
          /\ error = "none" <=> (loading_summary.written /\ loading_summary.date = runs)
          /\ error = "none" =>
                /\ loading_summary.total_raw_rows = total_raw_rows
                /\ loading_summary.counts = counts
                /\ loading_summary.quality_results = quality_results

\* after an extraction with a failed dataset, a load run whose ETL stage failed
\* after raw rows were loaded has ended without a summary
C16_Witness ==
    /\ extraction_summary.written
    /\ ~run_source["electricity_balance"].ok
    /\ extraction_summary.total_records > 0
    /\ pc = "exited"
    /\ error = "etl"
    /\ total_raw_rows > 0
    /\ ~loading_summary.written

\* C17 (as claimed): a call with start_date > end_date is rejected before any
\* I/O: it sends no request to the source and writes nothing.
C17_InvalidWindowRejected ==
    [][last_call' # last_call =>
          (last_call'.start_date > last_call'.end_date =>
              /\ last_call'.kind \notin Fetched \cup {"error"}
              /\ raw_files' = raw_files
              /\ extraction_summary' = extraction_summary)]_vars

\* C17 (amended): a call with start_date > end_date is not rejected. Every call
\* sends its request with the dates it was given, whatever their order, and
\* the records that come back are persisted as for any other window.
C17_WindowPassedOn ==
    last_call # NoCall =>
        /\ [start_date |-> last_call.start_date, end_date |-> last_call.end_date] \in Windows
        /\ last_call.returned # <<>> =>
              raw_files[last_call.dataset] = [exists |-> TRUE, rows |-> last_call.returned]

\* a call with start_date > end_date has persisted the record it got
C17_Witness ==
    /\ last_call.start_date > last_call.end_date
    /\ last_call.kind = "saved"
    /\ raw_files[last_call.dataset].rows = last_call.returned

\* C18: a successful fetch has requested pages until the source had no more:
\* no record of the window stays behind at the source.
C18_FetchComplete ==
    last_call.kind \in Fetched => last_call.pending = <<>>

----------------------------------------------------------------------------
(* Properties of the joined rows                                          *)

AreasOf(frame) == {frame[i].PriceArea : i \in DOMAIN frame}

\* C19: the joined output holds at most one row per (hour, price area), also
\* when an input stream holds more than one record for a timestamp and area.
C19_FactKeyUnique ==
    Prepared =>
        \A i, j \in DOMAIN merged_data :
            (merged_data[i].datetime = merged_data[j].datetime
             /\ merged_data[i].PriceArea = merged_data[j].PriceArea) => i = j

----------------------------------------------------------------------------
(* Properties of the ETL batch                                            *)

\* the rows a fact table holds for a key
FactRowsOf(table, k) ==
    LET of_key(t) == FactKey(t) = k
    IN  SelectSeq(table, of_key)

----------------------------------------------------------------------------
(* Properties of the time bucket of a raw record                          *)

\* the frames carry their datetime column
Dated == mlpc \in {"datetime", "merged", "engineered"}

\* the hourly CO2 frame has a row for the hour of t in the price area a
HourlyRowAt(t, a) == RowsOf(co2_agg, <<floorH(t), a>>) # {}

\* C22 (as claimed): the datetime of every raw record is that of its local
\* (Danish) timestamp, and a CO2 record lies in the hourly bucket of its local
\* time.
C22_LocalTimeBuckets ==
    /\ Dated =>
          /\ \A i \in DOMAIN co2_data :
                co2_data[i].datetime = to_datetime(co2_data[i].Minutes5DK)
          /\ \A i \in DOMAIN renewable_data :
                renewable_data[i].datetime = to_datetime(renewable_data[i].HourDK)
          /\ \A i \in DOMAIN price_data :
                price_data[i].datetime = to_datetime(price_data[i].HourDK)
    /\ Prepared =>
          \A i \in DOMAIN co2_data :
              HourlyRowAt(to_datetime(co2_data[i].Minutes5DK), co2_data[i].PriceArea)

\* C22 (amended): the datetime of every raw record is that of its UTC
\* timestamp, and the hourly CO2 frame has the row of a CO2 record in the
\* bucket of its UTC hour; the hour feature of a merged row is the UTC hour.
C22_UtcTimeBuckets ==
    /\ Dated =>
          /\ \A i \in DOMAIN co2_data :
                co2_data[i].datetime = to_datetime(co2_data[i].Minutes5UTC)
          /\ \A i \in DOMAIN renewable_data :
                renewable_data[i].datetime = to_datetime(renewable_data[i].HourUTC)
          /\ \A i \in DOMAIN price_data :
                price_data[i].datetime = to_datetime(price_data[i].HourUTC)
    /\ Prepared =>
          \A i \in DOMAIN co2_data :
              HourlyRowAt(to_datetime(co2_data[i].Minutes5UTC), co2_data[i].PriceArea)
    /\ mlpc = "engineered" =>
          \A j \in DOMAIN df :
              \E i \in DOMAIN renewable_data :
                  /\ renewable_data[i].PriceArea = df[j].PriceArea
                  /\ to_datetime(renewable_data[i].HourUTC) = df[j].datetime
                  /\ renewable_data[i].HourUTC.hour = df[j].hour

\* a CO2 record of 23:55 UTC, 00:55 of the next day in Denmark: its hourly row
\* is in the bucket of 23:00 of the first day, the bucket of 00:00 of the
\* second day has no row
C22_Witness ==
    /\ mlpc = "merged"
    /\ \E i \in DOMAIN co2_data :
          /\ co2_data[i].Minutes5UTC = TS(0, 23, 55)
          /\ co2_data[i].Minutes5DK = TS(1, 0, 55)
          /\ co2_data[i].PriceArea = "DK1"
    /\ RowsOf(co2_agg, <<23 * 60, "DK1">>) # {}
    /\ RowsOf(co2_agg, <<24 * 60, "DK1">>) = {}

----------------------------------------------------------------------------
(* Properties of the dashboard data service                               *)

\* a date argument that carries a date
Supplied(x) == ~falsy(x)

\* C23: a call of get_renewable_trends(days) has made one execute_query with
\* the parameters (days,); a call of get_hourly_patterns with both dates
\* supplied has made one execute_query with the parameters (date_from,
\* date_to), the dates as the caller gave them and in that order; in both the
\* method returns or raises what execute_query returned or raised.
C23_QueryDelegation ==
    /\ dash_call.method = "get_renewable_trends" =>
          /\ dash_call.queries =
                <<[query |-> "renewable_trends", params |-> <<dash_call.args[1]>>]>>
          /\ dash_call.result = dash_call.executed
    /\ (/\ dash_call.method = "get_hourly_patterns"
        /\ Supplied(dash_call.args[1])
        /\ Supplied(dash_call.args[2])) =>
          /\ dash_call.queries = <<[query |-> "hourly_patterns", params |-> dash_call.args]>>
          /\ dash_call.result = dash_call.executed

\* get_hourly_patterns('2023-01-01', '2023-01-02') has returned the frame of
\* its one execute_query
C23_Witness ==
    /\ dash_call.method = "get_hourly_patterns"
    /\ dash_call.args = <<"2023-01-01", "2023-01-02">>
    /\ Len(dash_call.queries) = 1
    /\ ~dash_call.result.raised
    /\ dash_call.result.frame # <<>>

\* C24 (as claimed): whatever queries succeeded or failed, no connection that
\* execute_query opened is open once execute_query has returned or raised.
C24_NoConnectionLeak == open_connections = 0

----------------------------------------------------------------------------
(* Properties of the orchestration pipeline                               *)

\* the copy of an activity has started in the current run
Ran(a) == activity_status[a] \in {"InProgress", "Succeeded", "Failed"}

\* entry i of the activities depends on the success of entry i - 1 and on
\* nothing else
ChainedAt(i) ==
    create_pipeline_config[i].dependsOn =
        IF i = 1 THEN <<>>
        ELSE <<[activity |-> create_pipeline_config[i - 1].name,
                dependencyConditions |-> <<"Succeeded">>]>>

\* C30: the activities are, in this order, the CO2, the renewable and the price
\* extraction, each but the first depending on Succeeded of the one before it;
\* the renewable extraction has started only if the CO2 extraction succeeded,
\* the price extraction only if the renewable extraction succeeded, and after a
\* failed activity no later activity has run.
C30_ChainOrder ==
    /\ [i \in DOMAIN create_pipeline_config |-> create_pipeline_config[i].name] =
          <<"Extract_CO2_Emissions", "Extract_Renewable_Energy", "Extract_Electricity_Prices">>
    /\ \A i \in DOMAIN create_pipeline_config : ChainedAt(i)
    /\ Ran("Extract_Renewable_Energy") => activity_status["Extract_CO2_Emissions"] = "Succeeded"
    /\ Ran("Extract_Electricity_Prices") =>
          activity_status["Extract_Renewable_Energy"] = "Succeeded"
    /\ activity_status["Extract_CO2_Emissions"] = "Failed" =>
          ~Ran("Extract_Renewable_Energy") /\ ~Ran("Extract_Electricity_Prices")
    /\ activity_status["Extract_Renewable_Energy"] = "Failed" =>
          ~Ran("Extract_Electricity_Prices")
    /\ \A r \in DOMAIN pipeline_history :
          /\ pipeline_history[r]["Extract_Renewable_Energy"] \in {"Succeeded", "Failed"} =>
                pipeline_history[r]["Extract_CO2_Emissions"] = "Succeeded"
          /\ pipeline_history[r]["Extract_Electricity_Prices"] \in {"Succeeded", "Failed"} =>
                pipeline_history[r]["Extract_Renewable_Energy"] = "Succeeded"

\* a run in which the CO2 extraction succeeded and the renewable extraction
\* failed: the price extraction was skipped
C30_Witness ==
    /\ pipeline_runs > 0
    /\ activity_status["Extract_CO2_Emissions"] = "Succeeded"
    /\ activity_status["Extract_Renewable_Energy"] = "Failed"
    /\ activity_status["Extract_Electricity_Prices"] = "Skipped"

----------------------------------------------------------------------------
(* Properties of the stages of main()                                     *)

\* main() is between its start and its end
Running == pc \in {"connect", "load", "etl", "counts", "quality", "summary", "finally"}

\* C25: every run of main() that was started comes to its end through
\* disconnect, whichever step failed or none; an open connection is closed
\* there and nowhere else, once; the exception of the failed step is still
\* raised when main() ends; a loader that never connected ends with no
\* connection, closed or open.
C25_ConnectionReleased ==
    /\ [](pc = "exited" =>
             /\ conn # "open"
             /\ fault = "connect" => conn = "none"
             /\ fault # "none" => error = fault)
    /\ [][(conn = "open" /\ conn' # "open") =>
             (pc = "finally" /\ pc' = "exited" /\ conn' = "closed")]_vars
    /\ [][pc' = "exited" => pc \in {"finally", "exited"}]_vars
    /\ [](Running => <>(pc = "exited"))

\* a run whose ETL step raised has ended: the connection is closed and the
\* exception goes to the caller
C25_Witness ==
    /\ pc = "exited"
    /\ fault = "etl"
    /\ error = "etl"
    /\ conn = "closed"

\* the rows of the file of dataset d whose key table does not hold
NewRowsOf(d, table) ==
    {RecordKey(raw_files[d].rows[i]) : i \in DOMAIN raw_files[d].rows}
        \ {RecordKey(t) : t \in table}

\* C26: a call of load_csv_to_raw_table either commits its file (afterwards
\* the raw table holds a row for every key of the file, the other raw tables
\* are as before, and the count of the rows it added is what main() adds to its
\* total) or raises and leaves every raw table as it was, the rows of the
\* files loaded before it included; no step of main() takes a row out of a raw
\* table.
C26_FileAtomicity ==
    [][/\ pc = "load" =>
            LET d == csv_files[next_file]
            IN  \/ /\ pc' \in {"load", "etl"}
                   /\ error' = "none"
                   /\ raw_files[d].exists =>
                         /\ NewRowsOf(d, raw_tables'[d]) = {}
                         /\ total_raw_rows' =
                               total_raw_rows + Cardinality(NewRowsOf(d, raw_tables[d]))
                   /\ \A e \in Range(csv_files) \ {d} : raw_tables'[e] = raw_tables[e]
                \/ /\ pc' = "finally"
                   /\ error' = "load"
                   /\ raw_tables' = raw_tables
                   /\ total_raw_rows' = total_raw_rows
                \/ UNCHANGED vars
       /\ \A d \in Range(csv_files) : raw_tables[d] \subseteq raw_tables'[d]]_vars

\* the CO2 file was loaded and committed, the load of a later file raised: the
\* run ended with the CO2 rows in their raw table and no row of the later file
C26_Witness ==
    /\ pc = "exited"
    /\ fault = "load"
    /\ raw_tables["co2_emissions"] # {}
    /\ \E d \in {"renewable_energy", "electricity_prices"} :
          /\ raw_files[d].exists
          /\ raw_tables[d] = {}
          /\ next_file > 1

\* the three fact tables
FactTables == <<fact_co2_emissions, fact_energy_production, fact_electricity_prices>>

\* what the stages after the raw load leave behind
StageResults == <<etl_result, counts, quality_results, loading_summary>>

\* C27: a raw load or an ETL step that raises leaves the fact tables as they
\* were and takes main() to its finally block; from then on to the end of the
\* run the fact tables, the ETL result, the table counts, the quality results
\* and the summary file do not change. In a run whose raw load raised, the ETL
\* step, the counts and the checks have not run; in a run whose ETL step
\* raised, the counts and the checks have not run; neither has written the
\* summary.
C27_FailureStopsStages ==
    /\ [][(fault = "none" /\ fault' \in {"load", "etl"}) =>
             (pc' = "finally" /\ UNCHANGED FactTables /\ UNCHANGED StageResults)]_vars
    /\ [][(fault \in {"load", "etl"} /\ fault' = fault) =>
             (/\ pc' \in {"finally", "exited"}
              /\ UNCHANGED FactTables
              /\ UNCHANGED StageResults)]_vars
    /\ [](fault \in {"load", "etl"} =>
             /\ etl_result = 0
             /\ counts = <<>>
             /\ quality_results = <<>>
             /\ loading_summary.written => loading_summary.date < runs)

\* the raw load gave rows to join, the ETL step raised, the run has ended:
\* the fact tables are empty as before, no counts, no checks, no summary
C27_Witness ==
    /\ pc = "exited"
    /\ fault = "etl"
    /\ etl_keys(raw_tables) # {}
    /\ fact_co2_emissions = <<>>
    /\ fact_energy_production = <<>>
    /\ counts = <<>>
    /\ quality_results = <<>>
    /\ ~loading_summary.written

----------------------------------------------------------------------------
(* Properties of the extract operations                                   *)

\* a frame of records of dataset d, as an extract_* call returns it
FrameOf(d, frame) == \A i \in DOMAIN frame : frame[i] \in SourceRecords[d]

\* C28: every extract_* call ends by returning a frame of records, the empty
\* frame when its request failed or came back without records, and in those
\* two cases every raw file is as it was before the call; a raw file changes
\* only in a call for its dataset that got at least one record, and then to
\* the records of that response.
C28_ExtractNeverRaises ==
    /\ [](last_call.dataset \in Datasets =>
             /\ FrameOf(last_call.dataset, last_call.returned)
             /\ last_call.kind \in {"error", "empty"} <=> last_call.returned = <<>>)
    /\ [][/\ (last_call'.kind \in {"error", "empty"} /\ last_call'.dataset \in Datasets) =>
                raw_files' = raw_files
          /\ \A d \in Datasets :
                raw_files'[d] # raw_files[d] =>
                    /\ last_call'.dataset = d
                    /\ Len(last_call'.returned) >= 1
                    /\ raw_files'[d] = [exists |-> TRUE, rows |-> last_call'.returned]]_vars

\* the price file holds the records of an earlier call, the latest call for
\* the prices came back without records and returned the empty frame
C28_Witness ==
    /\ last_call.dataset = "electricity_prices"
    /\ last_call.kind = "empty"
    /\ last_call.returned = <<>>
    /\ raw_files["electricity_prices"].exists
    /\ raw_files["electricity_prices"].rows # <<>>

\* C29: the summary of a run of run_full_extraction holds, for each of the four
\* datasets, the number of records that the extract call of that run returned,
\* 0 for a call that failed or got no records, and as total_records the sum of
\* the four counts.
C29_SummaryConsistent ==
    extraction_summary.written =>
        LET n == extraction_summary.datasets_extracted
        IN  /\ DOMAIN n = Datasets
            /\ \A d \in Datasets :
                  /\ n[d] = ReturnedIn(d)
                  /\ (~run_source[d].ok \/ run_source[d].records = <<>>) => n[d] = 0
            /\ extraction_summary.total_records =
                  n["electricity_balance"] + n["co2_emissions"]
                  + n["renewable_energy"] + n["electricity_prices"]

\* a run in which the balance and the CO2 fetch returned a record each, the
\* production fetch failed and the price fetch came back empty: the total is 2
C29_Witness ==
    /\ extraction_summary.written
    /\ extraction_summary.datasets_extracted["electricity_balance"] = 1
    /\ extraction_summary.datasets_extracted["co2_emissions"] = 1
    /\ ~run_source["renewable_energy"].ok
    /\ run_source["electricity_prices"].ok
    /\ run_source["electricity_prices"].records = <<>>
    /\ extraction_summary.total_records = 2

====
